---- MODULE Spec2Model ----
(***************************************************************************)
(* A model of the review-orchestration service: the durable store          *)
(* (MRReviews, Assignments, Metrics, Badges, UserBadges), the daily        *)
(* metrics aggregator, the leaderboard queries, the badge evaluator and    *)
(* the cron scheduler that runs on every replica.                          *)
(*                                                                         *)
(* Instants are seconds since the start of day 0.  A nil pointer / SQL     *)
(* NULL in an integer column is NULL.  DECIMAL(10,2) columns hold          *)
(* hundredths.                                                             *)
(***************************************************************************)
EXTENDS Integers, Sequences, FiniteSets, TLC

VARIABLES
    mrReviews,      \* table mr_reviews: a set of rows
    nextReviewId,   \* the SERIAL of mr_reviews
    assignments,    \* table reviewer_assignments: a set of rows
    metrics,        \* table review_metrics: a set of rows
    nextMetricId,   \* the SERIAL of review_metrics
    lastAgg,        \* start of day of the most recent AggregateDaily run, or NULL
    aggCount,       \* number of consecutive AggregateDaily runs for lastAgg
    aggPrev,        \* the review_metrics rows as they were before the most recent run
    mproc,          \* in-flight MetricsRepository.CreateOrUpdate calls
    mcalls,         \* CreateOrUpdate calls made so far by the concurrent callers
    rproc,          \* in-flight webhook handlers / CreateOrUpdateMRReview calls
    rcalls,         \* CreateOrUpdateMRReview calls made so far
    now,            \* the wall clock
    toDeliver,      \* webhook events GitLab has still to deliver for the MR
    delivered,      \* webhook events a handler has taken up
    userBadges,     \* table user_badges: a set of rows
    nextUserBadgeId,\* the SERIAL of user_badges
    bproc,          \* per replica: the position of its EvaluateAllBadges run
    bruns,          \* EvaluateAllBadges runs started so far
    npc,            \* per replica: the position of its runDailyNotifications run
    nruns,          \* runDailyNotifications runs started so far
    sent,           \* the reminders sent to the chat, in order
    board,          \* the result of the most recent leaderboard query
    lbArgs,         \* the arguments of the most recent leaderboard query
    critArgs,       \* the criterion and user of the most recent checkCriteria call
    critResult,     \* what that call returned
    critErr,        \* whether that call returned an error
    calcArgs,       \* the review or assignment of the most recent calculator call
    calcResult,      \* what that call returned
    aggOutcome,     \* what the most recent fault-injected AggregateDaily run returned
    aggFailed,      \* the steps of that run that failed
    evalOutcome,    \* what the most recent fault-injected EvaluateAllBadges run returned
    evalFailed,     \* the calls of that run that failed
    oooTbl,         \* table ooo_status: a set of rows
    oooResult,      \* the most recent out-of-office check and what it returned
    rouletteArgs,   \* the MR of the most recent roulette
    rouletteResult, \* the assignments that roulette returned
    users,          \* table users: a set of rows
    nextUserId,     \* the SERIAL of users
    userCalls       \* the user values CreateOrUpdate was called with, in order

NULL == -1

\* ------------------------------------------------------------------ bounds
MaxReviews == 2     \* MRReview rows in the aggregator's store
MaxAggRuns == 2     \* consecutive AggregateDaily runs for one date
MaxDays == 2        \* days 0 .. MaxDays-1 can be aggregated
MaxProcs == 2       \* concurrent callers of one repository method
MaxCalls == 3       \* calls the concurrent callers of one repository method make in all
MaxUsers == 2        \* rows of table users
MaxEvalRuns == 3     \* EvaluateAllBadges runs in all
MaxNotifyRuns == 2   \* runDailyNotifications runs in all

\* ------------------------------------------------------- program constants
DayLen == 86400     \* 24 * time.Hour, in seconds
FourHours == 14400  \* 4 * time.Hour, in seconds
SecPerMin == 60

MRStatusPending == "pending"
MRStatusInReview == "in_review"
MRStatusApproved == "approved"
MRStatusMerged == "merged"
MRStatusClosed == "closed"

\* ----------------------------------------------------------------- helpers
Min(S) == CHOOSE x \in S : \A y \in S : x <= y

RECURSIVE SumOver(_, _)
SumOver(S, F) ==
    IF S = {} THEN 0
    ELSE LET x == CHOOSE y \in S : TRUE IN F[x] + SumOver(S \ {x}, F)

RECURSIVE SortedSeq(_)
SortedSeq(S) ==
    IF S = {} THEN <<>>
    ELSE LET m == Min(S) IN <<m>> \o SortedSeq(S \ {m})

Perms(S) == { f \in [1..Cardinality(S) -> S] : \A i, j \in DOMAIN f : f[i] = f[j] => i = j }

\* float64 -> DECIMAL(10,2): the quotient num/den in hundredths, rounded half up
Round100(num, den) == (200 * num + den) \div (2 * den)

\* ------------------------------------------------- table review_metrics
\* A value of models.ReviewMetrics (ID still zero).
ReviewMetrics(date, team, user, project, total, completed, ttfr, tta, cc, cl, eng) ==
    [ date |-> date, team |-> team, user |-> user, project |-> project,
      total |-> total, completed |-> completed, avgTTFR |-> ttfr, avgTTA |-> tta,
      avgCC |-> cc, avgCL |-> cl, eng |-> eng ]

WithId(m, id) ==
    [ id |-> id, date |-> m.date, team |-> m.team, user |-> m.user, project |-> m.project,
      total |-> m.total, completed |-> m.completed, avgTTFR |-> m.avgTTFR,
      avgTTA |-> m.avgTTA, avgCC |-> m.avgCC, avgCL |-> m.avgCL, eng |-> m.eng ]

\* The WHERE clause CreateOrUpdate builds: date = ? AND team = ? AND
\* (user_id = ? | user_id IS NULL) AND (project_id = ? | project_id IS NULL).
MetricsQuery(rows, m) ==
    { r \in rows :
        /\ r.date = m.date /\ r.team = m.team
        /\ IF m.user # NULL THEN r.user = m.user ELSE r.user = NULL
        /\ IF m.project # NULL THEN r.project = m.project ELSE r.project = NULL }

\* query.First(&existing): the matching row with the lowest primary key, or NULL.
MetricsFirst(rows, m) ==
    LET found == MetricsQuery(rows, m)
    IN IF found = {} THEN NULL ELSE Min({ r.id : r \in found })

\* UNIQUE(date, team, user_id, project_id): a NULL never equals a NULL, so
\* only a row with both user_id and project_id set can collide.
MetricsUniqueViolation(rows, m) ==
    /\ m.user # NULL /\ m.project # NULL
    /\ \E r \in rows : r.date = m.date /\ r.team = m.team
                       /\ r.user = m.user /\ r.project = m.project

\* MetricsRepository.Create: INSERT; a unique violation returns an error and
\* leaves the table as it was.
MetricsCreate(ms, m) ==
    IF MetricsUniqueViolation(ms.rows, m) THEN ms
    ELSE [ rows |-> ms.rows \cup { WithId(m, ms.next) }, next |-> ms.next + 1 ]

\* r.db.Save(metric) with metric.ID = id: every column of that row is rewritten.
MetricsSave(ms, m, id) ==
    [ rows |-> { r \in ms.rows : r.id # id } \cup { WithId(m, id) }, next |-> ms.next ]

\* A CreateOrUpdate that never looks the row up.
MetricsCreateOrUpdateAlwaysCreate(ms, m) == MetricsCreate(ms, m)

\* MetricsRepository.CreateOrUpdate, run without interruption.
MetricsCreateOrUpdate(ms, m) ==
    LET id == MetricsFirst(ms.rows, m)
    IN IF id = NULL THEN MetricsCreate(ms, m) ELSE MetricsSave(ms, m, id)

\* ------------------------------------------------------------- aggregator
InRange(t, lo, hi) == t # NULL /\ lo <= t /\ t <= hi

\* (merged_at BETWEEN ? AND ?) OR (closed_at BETWEEN ? AND ?), status IN (merged, closed)
GetCompletedReviewsByDateRange(revs, startDate, endDate) ==
    { r \in revs :
        /\ InRange(r.mergedAt, startDate, endDate) \/ InRange(r.closedAt, startDate, endDate)
        /\ r.status \in { MRStatusMerged, MRStatusClosed } }

GetAssignmentsByMRReviewID(asg, id) == { a \in asg : a.review = id }

\* aggregateTeamMetrics with the comment averages taken per assignment instead
\* of per review.
aggregateTeamMetricsPerAssignment(ms, asg, date, team, reviews) ==
    LET n == Cardinality(reviews)
        completedCount == Cardinality({ r \in reviews : r.status = MRStatusMerged })
        withTTFR == { r \in reviews : /\ r.firstReviewAt # NULL /\ r.triggeredAt # NULL
                                      /\ r.firstReviewAt - r.triggeredAt >= 0 }
        totalTTFR == SumOver(withTTFR, [ r \in withTTFR |-> r.firstReviewAt - r.triggeredAt ])
        withApproval == { r \in reviews : /\ r.approvedAt # NULL /\ r.triggeredAt # NULL
                                          /\ r.approvedAt - r.triggeredAt >= 0 }
        totalTimeToApproval ==
            SumOver(withApproval, [ r \in withApproval |-> r.approvedAt - r.triggeredAt ])
        mine == { a \in asg : \E r \in reviews : a.review = r.id }
        k == Cardinality(mine)
        totalCommentCount == SumOver(mine, [ a \in mine |-> a.commentCount ])
        totalCommentLength == SumOver(mine, [ a \in mine |-> a.commentLength ])
    IN MetricsCreateOrUpdate(ms,
          ReviewMetrics(date, team, NULL, NULL, n, completedCount,
                        IF withTTFR # {}
                        THEN totalTTFR \div (Cardinality(withTTFR) * SecPerMin) ELSE NULL,
                        IF withApproval # {}
                        THEN totalTimeToApproval \div (Cardinality(withApproval) * SecPerMin)
                        ELSE NULL,
                        IF k > 0 THEN Round100(totalCommentCount, k) ELSE 0,
                        IF k > 0 THEN Round100(totalCommentLength, k) ELSE 0,
                        IF k > 0
                        THEN Round100(1000 * totalCommentCount + totalCommentLength, 100 * k)
                        ELSE 0))

aggregateTeamMetrics(ms, asg, date, team, reviews) ==
    LET n == Cardinality(reviews)
        completedCount == Cardinality({ r \in reviews : r.status = MRStatusMerged })
        withTTFR == { r \in reviews : /\ r.firstReviewAt # NULL /\ r.triggeredAt # NULL
                                      /\ r.firstReviewAt - r.triggeredAt >= 0 }
        totalTTFR == SumOver(withTTFR, [ r \in withTTFR |-> r.firstReviewAt - r.triggeredAt ])
        ttfrCount == Cardinality(withTTFR)
        withApproval == { r \in reviews : /\ r.approvedAt # NULL /\ r.triggeredAt # NULL
                                          /\ r.approvedAt - r.triggeredAt >= 0 }
        totalTimeToApproval ==
            SumOver(withApproval, [ r \in withApproval |-> r.approvedAt - r.triggeredAt ])
        approvalCount == Cardinality(withApproval)
        mine == { a \in asg : \E r \in reviews : a.review = r.id }
        totalCommentCount == SumOver(mine, [ a \in mine |-> a.commentCount ])
        totalCommentLength == SumOver(mine, [ a \in mine |-> a.commentLength ])
        avgTTFRMinutes == IF ttfrCount > 0 THEN totalTTFR \div (ttfrCount * SecPerMin) ELSE NULL
        avgTimeToApprovalMinutes ==
            IF approvalCount > 0 THEN totalTimeToApproval \div (approvalCount * SecPerMin)
            ELSE NULL
        avgCommentCount == IF n > 0 THEN Round100(totalCommentCount, n) ELSE 0
        avgCommentLength == IF n > 0 THEN Round100(totalCommentLength, n) ELSE 0
        engagementScore ==
            IF n > 0 THEN Round100(1000 * totalCommentCount + totalCommentLength, 100 * n) ELSE 0
    IN MetricsCreateOrUpdate(ms,
          ReviewMetrics(date, team, NULL, NULL, n, completedCount, avgTTFRMinutes,
                        avgTimeToApprovalMinutes, avgCommentCount, avgCommentLength,
                        engagementScore))

\* metrics.CalculateEngagementScore, in hundredths
CalculateEngagementScore(a) == Round100(1000 * a.commentCount + a.commentLength, 100)

\* The row aggregateUserMetrics builds for one assignment.
UserMetricOf(date, review, a) ==
    LET ttfr == IF a.firstCommentAt # NULL /\ a.assignedAt > 0
                   /\ a.firstCommentAt - a.assignedAt >= 0
                THEN a.firstCommentAt - a.assignedAt ELSE 0
        approvalTime == IF a.approvedAt # NULL /\ a.assignedAt > 0
                           /\ a.approvedAt - a.assignedAt >= 0
                        THEN a.approvedAt - a.assignedAt ELSE 0
        avgTTFRMinutes == IF ttfr > 0 THEN ttfr \div SecPerMin ELSE NULL
        avgTimeToApprovalMinutes == IF approvalTime > 0 THEN approvalTime \div SecPerMin ELSE NULL
        completedReviews == IF review.status = MRStatusMerged THEN 1 ELSE 0
    IN ReviewMetrics(date, review.team, a.user, review.project, 1, completedReviews,
                     avgTTFRMinutes, avgTimeToApprovalMinutes,
                     100 * a.commentCount, 100 * a.commentLength,
                     CalculateEngagementScore(a))

RECURSIVE UserMetricsLoop(_, _, _, _, _)
UserMetricsLoop(ms, asg, date, review, ids) ==
    IF ids = <<>> THEN ms
    ELSE LET a == CHOOSE x \in asg : x.id = Head(ids)
         IN UserMetricsLoop(MetricsCreateOrUpdate(ms, UserMetricOf(date, review, a)),
                            asg, date, review, Tail(ids))

\* aggregateUserMetrics: one upsert per assignment of the review, in primary-key order
aggregateUserMetrics(ms, asg, date, review) ==
    UserMetricsLoop(ms, asg, date, review,
                    SortedSeq({ a.id : a \in GetAssignmentsByMRReviewID(asg, review.id) }))

RECURSIVE TeamLoop(_, _, _, _, _)
TeamLoop(ms, asg, date, reviews, teamOrder) ==
    IF teamOrder = <<>> THEN ms
    ELSE TeamLoop(aggregateTeamMetrics(ms, asg, date, Head(teamOrder),
                                       { r \in reviews : r.team = Head(teamOrder) }),
                  asg, date, reviews, Tail(teamOrder))

RECURSIVE ReviewLoop(_, _, _, _, _)
ReviewLoop(ms, asg, date, reviews, ids) ==
    IF ids = <<>> THEN ms
    ELSE LET r == CHOOSE x \in reviews : x.id = Head(ids)
         IN ReviewLoop(aggregateUserMetrics(ms, asg, date, r), asg, date, reviews, Tail(ids))

StartOfDay(t) == (t \div DayLen) * DayLen

\* AggregateDaily(date).  teamOrder is the order in which the Go map of teams
\* is ranged over; the reviews are ranged over in primary-key order.
AggregateDailyResult(ms, revs, asg, date, teamOrder) ==
    LET startOfDay == StartOfDay(date)
        endOfDay == startOfDay + DayLen
        reviews == GetCompletedReviewsByDateRange(revs, startOfDay, endOfDay)
    IN IF reviews = {} THEN ms
       ELSE ReviewLoop(TeamLoop(ms, asg, startOfDay, reviews, teamOrder),
                       asg, startOfDay, reviews, SortedSeq({ r.id : r \in reviews }))

TeamOrders(revs, date) ==
    LET startOfDay == StartOfDay(date)
        reviews == GetCompletedReviewsByDateRange(revs, startOfDay, startOfDay + DayLen)
    IN Perms({ r.team : r \in reviews })

\* ------------------------------------------------ rows of the other tables
\* A value of models.MRReview (ID still zero).
MRReview(project, iid, team, status, trig, first, appr, merged, closed) ==
    [ project |-> project, iid |-> iid, team |-> team, status |-> status,
      triggeredAt |-> trig, firstReviewAt |-> first, approvedAt |-> appr,
      mergedAt |-> merged, closedAt |-> closed, botCommentId |-> NULL, createdAt |-> 0 ]

ReviewWithId(v, id, createdAt, bot) ==
    [ id |-> id, project |-> v.project, iid |-> v.iid, team |-> v.team, status |-> v.status,
      triggeredAt |-> v.triggeredAt, firstReviewAt |-> v.firstReviewAt,
      approvedAt |-> v.approvedAt, mergedAt |-> v.mergedAt, closedAt |-> v.closedAt,
      botCommentId |-> bot, createdAt |-> createdAt ]

ReviewerAssignment(id, review, user, assignedAt, firstCommentAt, approvedAt, cc, cl) ==
    [ id |-> id, review |-> review, user |-> user, assignedAt |-> assignedAt,
      firstCommentAt |-> firstCommentAt, approvedAt |-> approvedAt,
      commentCount |-> cc, commentLength |-> cl ]

\* ------------------------------------------- the stores the aggregator meets
\* Completed and open reviews around the day boundary: merged at noon of day
\* 0, closed on day 0 without a roulette, merged at exactly 00:00 of day 1 with
\* a first review that precedes the trigger, still pending, merged on day 1.
ReviewShape(i, k) ==
    CASE k = 1 -> MRReview(100, i, "frontend", MRStatusMerged, 36000, 39600, 41400, 43200, NULL)
      [] k = 2 -> MRReview(200, i, "backend", MRStatusClosed, NULL, NULL, NULL, NULL, 50000)
      [] k = 3 -> MRReview(100, i, "frontend", MRStatusMerged, 80000, 79000, 80030, DayLen, NULL)
      [] k = 4 -> MRReview(100, i, "backend", MRStatusPending, 36000, NULL, NULL, NULL, NULL)
      [] OTHER -> MRReview(100, i, "backend", MRStatusMerged, 100000, 100090, NULL, 129600, NULL)

ReviewShapes == 1..5

\* Assignments: a full one, one whose assigned_at was never set, one whose
\* first comment is at the instant of assignment and whose approval precedes it.
AssignmentShape(id, review, k) ==
    CASE k = 1 -> ReviewerAssignment(id, review, 1, 36000, 37800, 41400, 5, 500)
      [] k = 2 -> ReviewerAssignment(id, review, 2, 0, 38000, NULL, 3, 300)
      [] OTHER -> ReviewerAssignment(id, review, 1, 36000, 36000, 35000, 1, 50)

AssignmentChoices == { {}, {1, 2}, {2, 3} }

AggDates == { d * DayLen + 43200 : d \in 0..(MaxDays - 1) }

Procs == 1..MaxProcs

NoMetric == ReviewMetrics(NULL, "", NULL, NULL, 0, 0, NULL, NULL, 0, 0, 0)

Idle == [ pc |-> "idle", m |-> NoMetric, found |-> NULL ]

NoReview == MRReview(NULL, NULL, "", "", NULL, NULL, NULL, NULL, NULL)

RIdle == [ pc |-> "idle", v |-> NoReview, found |-> NULL, createdAt |-> 0, bot |-> NULL,
           err |-> FALSE, evt |-> "" ]

BIdle == [ pc |-> "idle", idx |-> 0 ]

NIdle == [ pc |-> "idle", mrs |-> {} ]

NoArgs == [ team |-> "", period |-> "", metric |-> "", limit |-> 0 ]

reviewTbl == << mrReviews, nextReviewId, assignments >>
metricsTbl == << metrics, nextMetricId >>
aggHist == << lastAgg, aggCount, aggPrev >>
metricsCallers == << mproc, mcalls >>
reviewCallers == << rproc, rcalls, now, toDeliver, delivered >>

badgeTbl == << userBadges, nextUserBadgeId >>
badgeCallers == << bproc, bruns >>
notifyState == << npc, nruns, sent >>
lbState == << board, lbArgs >>
pureState == << critArgs, critResult, critErr, calcArgs, calcResult >>
aggRun == << aggOutcome, aggFailed >>
evalRun == << evalOutcome, evalFailed >>
oooState == << oooTbl, oooResult >>
rouletteState == << rouletteArgs, rouletteResult >>
userState == << users, nextUserId, userCalls >>
dir == << oooState, rouletteState, userState >>
aux == << aggRun, evalRun, dir >>
others == << badgeTbl, badgeCallers, notifyState, lbState, pureState, aux >>

vars == << reviewTbl, metricsTbl, aggHist, metricsCallers, reviewCallers, others >>

\* The parts of the state a specification leaves at rest.
MetricsAtRest == metrics = {} /\ nextMetricId = 1
AggAtRest == lastAgg = NULL /\ aggCount = 0 /\ aggPrev = {}
MetricsCallersAtRest == mproc = [ p \in Procs |-> Idle ] /\ mcalls = 0
ReviewCallersAtRest ==
    /\ rproc = [ p \in Procs |-> RIdle ]
    /\ rcalls = 0
    /\ now = 0
    /\ toDeliver = {}
    /\ delivered = {}
ReviewsAtRest == mrReviews = {} /\ nextReviewId = 1 /\ assignments = {}
BadgesAtRest == userBadges = {} /\ nextUserBadgeId = 1
BadgeCallersAtRest == bproc = [ p \in Procs |-> BIdle ] /\ bruns = 0
NotifyAtRest == npc = [ p \in Procs |-> NIdle ] /\ nruns = 0 /\ sent = << >>
LBAtRest == board = << >> /\ lbArgs = NoArgs
PureAtRest ==
    /\ critArgs = << >> /\ critResult = FALSE /\ critErr = FALSE
    /\ calcArgs = << >> /\ calcResult = << >>
NoFailures == [ load |-> FALSE, teams |-> {}, reviews |-> {} ]
AggRunAtRest == aggOutcome = "none" /\ aggFailed = NoFailures
EvalRunAtRest == evalOutcome = "none" /\ evalFailed = << >>
OOOAtRest == oooTbl = {} /\ oooResult = << >>
RouletteAtRest == rouletteArgs = << >> /\ rouletteResult = {}
UsersAtRest == users = {} /\ nextUserId = 1 /\ userCalls = << >>
DirAtRest == OOOAtRest /\ RouletteAtRest /\ UsersAtRest
AuxAtRest == AggRunAtRest /\ EvalRunAtRest /\ DirAtRest
OthersAtRest ==
    /\ BadgesAtRest /\ BadgeCallersAtRest /\ NotifyAtRest /\ LBAtRest /\ PureAtRest
    /\ AuxAtRest

InitAgg ==
    /\ \E n \in 0..MaxReviews :
         \E shape \in [1..n -> ReviewShapes], pick \in [1..n -> AssignmentChoices] :
            /\ mrReviews = { ReviewWithId(ReviewShape(i, shape[i]), i, 0, NULL) : i \in 1..n }
            /\ assignments = UNION { { AssignmentShape(3 * (i - 1) + k, i, k) : k \in pick[i] }
                                     : i \in 1..n }
            /\ nextReviewId = n + 1
    /\ MetricsAtRest
    /\ AggAtRest
    /\ MetricsCallersAtRest
    /\ ReviewCallersAtRest
    /\ OthersAtRest

\* One run of AggregateDaily(date), from start to return.
AggregateDaily(date) ==
    /\ lastAgg = StartOfDay(date) => aggCount < MaxAggRuns
    /\ \E teamOrder \in TeamOrders(mrReviews, date) :
         \E res \in { AggregateDailyResult([ rows |-> metrics, next |-> nextMetricId ],
                                           mrReviews, assignments, date, teamOrder) } :
            /\ metrics' = res.rows
            /\ nextMetricId' = res.next
    /\ aggPrev' = metrics
    /\ lastAgg' = StartOfDay(date)
    /\ aggCount' = IF lastAgg = StartOfDay(date) THEN aggCount + 1 ELSE 1
    /\ UNCHANGED << others, reviewTbl, metricsCallers, reviewCallers >>

NextAgg == \E date \in AggDates : AggregateDaily(date)

SpecAgg == InitAgg /\ [][NextAgg]_vars

MetricsKey(r) == << r.date, r.team, r.user, r.project >>

UpsertInputs ==
    { ReviewMetrics(0, "frontend", u[1], u[2], 1, v, NULL, NULL, 0, 0, 0) :
        u \in { << NULL, NULL >>, << 1, NULL >>, << 1, 100 >> }, v \in 0..1 }

InitMetricsConc ==
    /\ ReviewsAtRest
    /\ MetricsAtRest
    /\ AggAtRest
    /\ MetricsCallersAtRest
    /\ ReviewCallersAtRest
    /\ OthersAtRest

\* CreateOrUpdate is entered with a metric value.
MCUCall(p, m) ==
    /\ mproc[p].pc = "idle"
    /\ mcalls < MaxCalls
    /\ mcalls' = mcalls + 1
    /\ mproc' = [ mproc EXCEPT ![p] = [ pc |-> "find", m |-> m, found |-> NULL ] ]
    /\ UNCHANGED << others, reviewTbl, metricsTbl, aggHist, reviewCallers >>

\* query.First(&existing)
MCUFind(p) ==
    /\ mproc[p].pc = "find"
    /\ mproc' = [ mproc EXCEPT ![p].pc = "write",
                               ![p].found = MetricsFirst(metrics, mproc[p].m) ]
    /\ UNCHANGED << others, reviewTbl, metricsTbl, aggHist, mcalls, reviewCallers >>

\* r.Create(metric) when nothing was found, r.db.Save(metric) otherwise
MCUWrite(p) ==
    /\ mproc[p].pc = "write"
    /\ LET ms == [ rows |-> metrics, next |-> nextMetricId ]
           res == IF mproc[p].found = NULL THEN MetricsCreate(ms, mproc[p].m)
                  ELSE MetricsSave(ms, mproc[p].m, mproc[p].found)
       IN /\ metrics' = res.rows
          /\ nextMetricId' = res.next
    /\ mproc' = [ mproc EXCEPT ![p].pc = "idle", ![p].m = NoMetric, ![p].found = NULL ]
    /\ UNCHANGED << others, reviewTbl, aggHist, mcalls, reviewCallers >>

NextMetricsConc ==
    \E p \in Procs :
        \/ \E m \in UpsertInputs : MCUCall(p, m)
        \/ MCUFind(p)
        \/ MCUWrite(p)

SpecMetricsConc == InitMetricsConc /\ [][NextMetricsConc]_vars

\* C5: whatever the interleaving of CreateOrUpdate calls, no two Metrics
\* rows share a (date, team, user, project) key, a NULL user or project
\* counting as a key value.
C5_UniqueKey ==
    \A r1, r2 \in metrics : MetricsKey(r1) = MetricsKey(r2) => r1.id = r2.id

\* ------------------------------------------------------ table mr_reviews
\* GetMRReview: WHERE gitlab_project_id = ? AND gitlab_mr_iid = ? ... First
GetMRReview(rows, project, iid) ==
    LET found == { r \in rows : r.project = project /\ r.iid = iid }
    IN IF found = {} THEN NULL ELSE Min({ r.id : r \in found })

\* UNIQUE(gitlab_project_id, gitlab_mr_iid)
ReviewUniqueViolation(rows, v) ==
    \E r \in rows : r.project = v.project /\ r.iid = v.iid

\* An INSERT into a table that has no unique constraint.
CreateMRReviewUnchecked(tbl, v, t) ==
    [ rows |-> tbl.rows \cup { ReviewWithId(v, tbl.next, t, v.botCommentId) },
      next |-> tbl.next + 1, err |-> FALSE ]

\* CreateMRReview: INSERT, created_at = now; a unique violation is returned
\* as an error and the table stays as it was.
CreateMRReview(tbl, v, t) ==
    IF ReviewUniqueViolation(tbl.rows, v)
    THEN [ rows |-> tbl.rows, next |-> tbl.next, err |-> TRUE ]
    ELSE [ rows |-> tbl.rows \cup { ReviewWithId(v, tbl.next, t, v.botCommentId) },
           next |-> tbl.next + 1, err |-> FALSE ]

\* UpdateMRReview: r.db.Save(review) rewrites every column of the row with
\* the review's ID from the caller's value.
UpdateMRReview(tbl, v, id, createdAt, bot) ==
    [ rows |-> { r \in tbl.rows : r.id # id } \cup { ReviewWithId(v, id, createdAt, bot) },
      next |-> tbl.next, err |-> FALSE ]

\* What callers hand to CreateOrUpdateMRReview for MRs 1 and 2 of project 100:
\* a pending review, an approved one, merged ones with later and with earlier
\* timestamps, a closed one, and a pending one that carries a bot comment id.
ReviewInputs ==
    UNION { { MRReview(100, i, "frontend", MRStatusPending, NULL, NULL, NULL, NULL, NULL),
              MRReview(100, i, "frontend", MRStatusApproved, 1, 2, 10, NULL, NULL),
              MRReview(100, i, "frontend", MRStatusMerged, 1, 2, 10, 20, NULL),
              MRReview(100, i, "frontend", MRStatusMerged, 1, 2, 5, 15, NULL),
              MRReview(100, i, "frontend", MRStatusClosed, 1, NULL, NULL, NULL, 30),
              [ MRReview(100, i, "frontend", MRStatusPending, 1, NULL, NULL, NULL, NULL)
                  EXCEPT !.botCommentId = 7 ] } : i \in 1..2 }

InitReview ==
    /\ ReviewsAtRest
    /\ MetricsAtRest
    /\ AggAtRest
    /\ MetricsCallersAtRest
    /\ ReviewCallersAtRest
    /\ OthersAtRest

\* CreateOrUpdateMRReview is entered with a review value.
RCUCall(p, v) ==
    /\ rproc[p].pc = "idle"
    /\ rcalls < MaxCalls
    /\ rcalls' = rcalls + 1
    /\ rproc' = [ rproc EXCEPT ![p] = [ RIdle EXCEPT !.pc = "get", !.v = v ] ]
    /\ UNCHANGED << others, reviewTbl, metricsTbl, aggHist, metricsCallers, now, toDeliver, delivered >>

\* existing, err := r.GetMRReview(review.GitLabProjectID, review.GitLabMRIID)
RCUGet(p) ==
    /\ rproc[p].pc = "get"
    /\ LET id == GetMRReview(mrReviews, rproc[p].v.project, rproc[p].v.iid)
       IN IF id = NULL
          THEN rproc' = [ rproc EXCEPT ![p].pc = "write", ![p].found = NULL ]
          ELSE LET existing == CHOOSE r \in mrReviews : r.id = id
               IN rproc' = [ rproc EXCEPT ![p].pc = "write", ![p].found = id,
                                          ![p].createdAt = existing.createdAt,
                                          ![p].bot = existing.botCommentId ]
    /\ UNCHANGED << others, reviewTbl, metricsTbl, aggHist, metricsCallers, rcalls, now,
                    toDeliver, delivered >>

\* r.CreateMRReview(review) when the lookup failed; otherwise the ID, CreatedAt
\* and (when the new value has none) BotCommentID of the row read are kept and
\* r.UpdateMRReview(review) saves the value.
RCUWrite(p) ==
    /\ rproc[p].pc = "write"
    /\ LET tbl == [ rows |-> mrReviews, next |-> nextReviewId ]
           v == rproc[p].v
           bot == IF v.botCommentId = NULL /\ rproc[p].bot # NULL
                  THEN rproc[p].bot ELSE v.botCommentId
           res == IF rproc[p].found = NULL THEN CreateMRReview(tbl, v, now)
                  ELSE UpdateMRReview(tbl, v, rproc[p].found, rproc[p].createdAt, bot)
       IN /\ mrReviews' = res.rows
          /\ nextReviewId' = res.next
          /\ rproc' = [ rproc EXCEPT ![p] = [ RIdle EXCEPT !.err = res.err ] ]
    /\ UNCHANGED << others, assignments, metricsTbl, aggHist, metricsCallers, rcalls, now,
                    toDeliver, delivered >>

NextReview ==
    \E p \in Procs :
        \/ \E v \in ReviewInputs : RCUCall(p, v)
        \/ RCUGet(p)
        \/ RCUWrite(p)

SpecReview == InitReview /\ [][NextReview]_vars

\* C7: after any interleaving of CreateOrUpdateMRReview calls there is at
\* most one MRReview row per (project id, MR iid) pair.
C7_OneRowPerMR ==
    \A r1, r2 \in mrReviews : (r1.project = r2.project /\ r1.iid = r2.iid) => r1.id = r2.id

\* Two calls for the same MR both missed the row; one inserted it and the
\* other's insert was rejected.
C7_Witness ==
    \E p \in Procs :
        /\ rproc[p].err
        /\ \E r \in mrReviews : r.project = 100 /\ r.iid = 1
        /\ \E r \in mrReviews : r.project = 100 /\ r.iid = 2

NotEarlier(old, new) == old # NULL => (new # NULL /\ new >= old)

\* C8: once approved_at, merged_at or closed_at of an MRReview is set, no
\* update makes it NULL or earlier.
C8_MonotoneTimestamps ==
    [][ \A r \in mrReviews : \A q \in mrReviews' :
           q.id = r.id => /\ NotEarlier(r.approvedAt, q.approvedAt)
                          /\ NotEarlier(r.mergedAt, q.mergedAt)
                          /\ NotEarlier(r.closedAt, q.closedAt) ]_vars

\* -------------------------------------------- review lifecycle (webhooks)
Events == { "open", "comment", "approve", "merge", "close" }

Terminal == { MRStatusMerged, MRStatusClosed }

\* The MRReview value a webhook handler builds from the row it loaded (cur,
\* or NoReview when there is none) for event e at instant t; NoReview when the
\* event is ignored.  A terminal row ignores every event, merge and close are
\* accepted from every other status.
ApplyEvent(cur, e, t) ==
    LET base == IF cur = NoReview
                THEN MRReview(100, 1, "frontend", MRStatusPending, NULL, NULL, NULL, NULL, NULL)
                ELSE MRReview(cur.project, cur.iid, cur.team, cur.status, cur.triggeredAt,
                              cur.firstReviewAt, cur.approvedAt, cur.mergedAt, cur.closedAt)
    IN CASE cur # NoReview /\ cur.status \in Terminal -> NoReview
         [] e = "open" -> IF cur = NoReview THEN base ELSE NoReview
         [] e = "comment" ->
              IF base.status = MRStatusPending
              THEN [ base EXCEPT !.status = MRStatusInReview,
                       !.firstReviewAt = IF @ = NULL THEN t ELSE @ ]
              ELSE IF base.firstReviewAt = NULL THEN [ base EXCEPT !.firstReviewAt = t ]
              ELSE NoReview
         [] e = "approve" ->
              IF base.status = MRStatusApproved THEN NoReview
              ELSE [ base EXCEPT !.status = MRStatusApproved,
                       !.approvedAt = IF @ = NULL THEN t ELSE @ ]
         [] e = "merge" -> [ base EXCEPT !.status = MRStatusMerged, !.mergedAt = t ]
         [] OTHER -> [ base EXCEPT !.status = MRStatusClosed, !.closedAt = t ]

InitLifecycle ==
    /\ OthersAtRest
    /\ ReviewsAtRest
    /\ MetricsAtRest
    /\ AggAtRest
    /\ MetricsCallersAtRest
    /\ rproc = [ p \in Procs |-> RIdle ]
    /\ rcalls = 0
    /\ now = 0
    /\ toDeliver \in (SUBSET Events) \ { {} }
    /\ delivered = {}

\* A handler takes up event e: it loads the MRReview and, unless the event is
\* ignored, enters CreateOrUpdateMRReview with the value it built.
HDeliver(p, e) ==
    /\ rproc[p].pc = "idle"
    /\ e \in toDeliver
    /\ toDeliver' = toDeliver \ { e }
    /\ delivered' = delivered \cup { e }
    /\ now' = now + 1
    /\ LET id == GetMRReview(mrReviews, 100, 1)
           cur == IF id = NULL THEN NoReview
                  ELSE LET r == CHOOSE x \in mrReviews : x.id = id
                       IN [ MRReview(r.project, r.iid, r.team, r.status, r.triggeredAt,
                                     r.firstReviewAt, r.approvedAt, r.mergedAt, r.closedAt)
                              EXCEPT !.botCommentId = r.botCommentId ]
           v == ApplyEvent(cur, e, now + 1)
       IN IF v = NoReview THEN UNCHANGED rproc
          ELSE rproc' = [ rproc EXCEPT ![p] = [ RIdle EXCEPT !.pc = "get", !.v = v, !.evt = e ] ]
    /\ UNCHANGED << others, reviewTbl, metricsTbl, aggHist, metricsCallers, rcalls >>

\* The write of CreateOrUpdateMRReview inside a handler: a persistence error
\* is returned to GitLab, which delivers the event again.
HWrite(p) ==
    /\ rproc[p].pc = "write"
    /\ LET tbl == [ rows |-> mrReviews, next |-> nextReviewId ]
           v == rproc[p].v
           bot == IF v.botCommentId = NULL /\ rproc[p].bot # NULL
                  THEN rproc[p].bot ELSE v.botCommentId
           res == IF rproc[p].found = NULL THEN CreateMRReview(tbl, v, now)
                  ELSE UpdateMRReview(tbl, v, rproc[p].found, rproc[p].createdAt, bot)
       IN /\ mrReviews' = res.rows
          /\ nextReviewId' = res.next
          /\ rproc' = [ rproc EXCEPT ![p] = [ RIdle EXCEPT !.err = res.err ] ]
          /\ toDeliver' = IF res.err THEN toDeliver \cup { rproc[p].evt } ELSE toDeliver
    /\ UNCHANGED << others, assignments, metricsTbl, aggHist, metricsCallers, rcalls, now, delivered >>

NextLifecycle ==
    \E p \in Procs :
        \/ \E e \in Events : HDeliver(p, e)
        \/ RCUGet(p)
        \/ HWrite(p)

SpecLifecycle == InitLifecycle /\ [][NextLifecycle]_vars

Quiet == toDeliver = {} /\ \A p \in Procs : rproc[p].pc = "idle"

\* C6: once every event for the MR has been handled, the status of the
\* MRReview is decided by the terminal event that was observed, whatever the
\* order and interleaving of the events: merged after a merge, closed after a
\* close.
C6_StatusByTerminalEvent ==
    Quiet =>
        \A r \in mrReviews :
            /\ ("merge" \in delivered /\ "close" \notin delivered) => r.status = MRStatusMerged
            /\ ("close" \in delivered /\ "merge" \notin delivered) => r.status = MRStatusClosed

\* ------------------------------------------------------------------ badges
Users == 1..MaxUsers

\* The rows of table badges, by id: their criteria.
BadgeCriteria(b) ==
    IF b = 1
    THEN [ metric |-> "completed_reviews", operator |-> ">=", value |-> 2, period |-> "" ]
    ELSE [ metric |-> "engagement_score", operator |-> "top", value |-> 1, period |-> "day" ]

Badges == 1..2

\* time.Date(2000, 1, 1, ...): long before day 0
Year2000 == 0 - 9000 * DayLen

\* badges.calculatePeriodRange with time.Now() = t
badgesCalculatePeriodRange(period, t) ==
    [ startDate |-> CASE period = "day" -> t - DayLen
                      [] period = "week" -> t - 7 * DayLen
                      [] period = "month" -> t - 30 * DayLen
                      [] period = "year" -> t - 365 * DayLen
                      [] OTHER -> Year2000,
      endDate |-> t ]

\* MetricsRepository.GetMetricsByUser
GetMetricsByUser(rows, user, startDate, endDate) ==
    { r \in rows : r.user = user /\ InRange(r.date, startDate, endDate) }

\* MetricsRepository.GetByDateRange without filters
GetByDateRange(rows, startDate, endDate) ==
    { r \in rows : InRange(r.date, startDate, endDate) }

OrZero(x) == IF x = NULL THEN 0 ELSE x

\* An aggregateUserMetrics without the early return for a user with no row:
\* the two totals are set, to zero.
badgesAggregateUserMetricsNoEarlyReturn(rows, user, startDate, endDate) ==
    LET um == GetMetricsByUser(rows, user, startDate, endDate)
        n == Cardinality(um)
        Sum(F(_)) == SumOver(um, [ r \in um |-> F(r) ])
        Ttfr(r) == OrZero(r.avgTTFR)
        Cc(r) == OrZero(r.avgCC)
        Cl(r) == OrZero(r.avgCL)
        Eng(r) == OrZero(r.eng)
        Done(r) == r.completed
    IN [ m \in (IF n = 0 THEN {}
                ELSE { "avg_ttfr", "avg_comment_count", "avg_comment_length",
                       "engagement_score" })
               \cup { "completed_reviews", "external_reviews" } |->
           CASE m = "avg_ttfr" -> [ num |-> Sum(Ttfr), den |-> n ]
             [] m = "avg_comment_count" -> [ num |-> Sum(Cc), den |-> 100 * n ]
             [] m = "avg_comment_length" -> [ num |-> Sum(Cl), den |-> 100 * n ]
             [] m = "engagement_score" -> [ num |-> Sum(Eng), den |-> 100 * n ]
             [] OTHER -> [ num |-> Sum(Done), den |-> 1 ] ]

\* badges.aggregateUserMetrics: the map from metric name to value, a value
\* being the quotient num/den; no key at all when the user has no row in the
\* period.  The DECIMAL columns are in hundredths.
badgesAggregateUserMetrics(rows, user, startDate, endDate) ==
    LET um == GetMetricsByUser(rows, user, startDate, endDate)
        n == Cardinality(um)
        byId == [ i \in { r.id : r \in um } |-> CHOOSE r \in um : r.id = i ]
        Sum(F(_)) == SumOver(DOMAIN byId, [ i \in DOMAIN byId |-> F(byId[i]) ])
        Ttfr(r) == OrZero(r.avgTTFR)
        Cc(r) == OrZero(r.avgCC)
        Cl(r) == OrZero(r.avgCL)
        Eng(r) == OrZero(r.eng)
        Done(r) == r.completed
    IN IF n = 0 THEN << >>
       ELSE [ m \in { "avg_ttfr", "avg_comment_count", "avg_comment_length",
                      "engagement_score", "completed_reviews", "external_reviews" } |->
                CASE m = "avg_ttfr" -> [ num |-> Sum(Ttfr), den |-> n ]
                  [] m = "avg_comment_count" -> [ num |-> Sum(Cc), den |-> 100 * n ]
                  [] m = "avg_comment_length" -> [ num |-> Sum(Cl), den |-> 100 * n ]
                  [] m = "engagement_score" -> [ num |-> Sum(Eng), den |-> 100 * n ]
                  [] OTHER -> [ num |-> Sum(Done), den |-> 1 ] ]

\* badges.evaluateMetricCriteria; an unsupported operator is an error, which
\* the callers treat as not qualifying.
evaluateMetricCriteria(operator, threshold, actual) ==
    CASE operator = "<" -> actual.num < threshold * actual.den
      [] operator = "<=" -> actual.num <= threshold * actual.den
      [] operator = ">" -> actual.num > threshold * actual.den
      [] operator = ">=" -> actual.num >= threshold * actual.den
      [] operator = "==" -> actual.num = threshold * actual.den
      [] OTHER -> FALSE

\* badges.getMetricValue, in hundredths
getMetricValue(m, metric) ==
    CASE metric = "completed_reviews" -> 100 * m.completed
      [] metric = "engagement_score" -> OrZero(m.eng)
      [] metric = "avg_ttfr" -> 100 * OrZero(m.avgTTFR)
      [] OTHER -> OrZero(m.avgCC)

\* badges.aggregateMetricsByUser: the sum per user over the rows with a user
badgesAggregateMetricsByUser(allMetrics, metric) ==
    LET ids == { r.id : r \in allMetrics }
    IN [ u \in { r.user : r \in { x \in allMetrics : x.user # NULL } } |->
           SumOver({ i \in ids : (CHOOSE r \in allMetrics : r.id = i).user = u },
                   [ i \in ids |-> getMetricValue(CHOOSE r \in allMetrics : r.id = i, metric) ]) ]

\* badges.sortUserRankings: the map is listed in an arbitrary order and sorted
\* by value, higher first; equal values end in any order.
sortUserRankings(userAggregates) ==
    { f \in Perms(DOMAIN userAggregates) :
        \A i, j \in DOMAIN f : i < j => userAggregates[f[i]] >= userAggregates[f[j]] }

\* badges.evaluateTopRanking: the outcomes the ranking allows
evaluateTopRanking(rows, metric, topN, period, user, t) ==
    LET range == badgesCalculatePeriodRange(period, t)
        allMetrics == GetByDateRange(rows, range.startDate, range.endDate)
    IN IF metric \notin { "completed_reviews", "engagement_score", "avg_ttfr",
                          "avg_comment_count" }
       THEN { FALSE }
       ELSE { \E i \in DOMAIN f : i <= topN /\ f[i] = user :
                f \in sortUserRankings(badgesAggregateMetricsByUser(allMetrics, metric)) }

\* badges.checkCriteria (through EvaluateBadge): the outcomes for the user
checkCriteria(rows, criteria, user, t) ==
    LET range == badgesCalculatePeriodRange(criteria.period, t)
        userMetrics == badgesAggregateUserMetrics(rows, user, range.startDate, range.endDate)
    IN IF criteria.metric \notin DOMAIN userMetrics THEN { FALSE }
       ELSE IF criteria.operator = "top"
       THEN evaluateTopRanking(rows, criteria.metric, criteria.value, criteria.period, user, t)
       ELSE { evaluateMetricCriteria(criteria.operator, criteria.value,
                                     userMetrics[criteria.metric]) }

\* Whether badges.checkCriteria returns an error (the repository calls
\* succeeding, the value a JSON number): never before the metric is found in
\* the user's map; then from getMetricValue for a metric that cannot be
\* ranked, or from evaluateMetricCriteria for an unsupported operator.
checkCriteriaErr(rows, criteria, user, t) ==
    LET range == badgesCalculatePeriodRange(criteria.period, t)
        userMetrics == badgesAggregateUserMetrics(rows, user, range.startDate, range.endDate)
    IN /\ criteria.metric \in DOMAIN userMetrics
       /\ IF criteria.operator = "top"
          THEN criteria.metric \notin { "completed_reviews", "engagement_score", "avg_ttfr",
                                        "avg_comment_count" }
          ELSE criteria.operator \notin { "<", "<=", ">", ">=", "==" }

\* A BadgeRepository.HasUserEarnedBadge that never finds a row.
HasUserEarnedBadgeNever(rows, user, badge) == FALSE

\* BadgeRepository.HasUserEarnedBadge: count > 0
HasUserEarnedBadge(rows, user, badge) ==
    Cardinality({ r \in rows : r.user = user /\ r.badge = badge }) > 0

\* EvaluateAllBadges loops over the badges and, for each, over the users.
NumPairs == Cardinality(Badges) * MaxUsers
BadgeAt(idx) == ((idx - 1) \div MaxUsers) + 1
UserAt(idx) == ((idx - 1) % MaxUsers) + 1

\* The next iteration of the loops, or the return.
Continue(st) == IF st.idx = NumPairs THEN BIdle ELSE [ pc |-> "has", idx |-> st.idx + 1 ]

\* EvaluateAllBadges is entered: badges and users are listed.
EvaluateAllBadges(p) ==
    /\ bproc[p].pc = "idle"
    /\ bruns < MaxEvalRuns
    /\ bruns' = bruns + 1
    /\ bproc' = [ bproc EXCEPT ![p] = [ pc |-> "has", idx |-> 1 ] ]
    /\ UNCHANGED << reviewTbl, metricsTbl, aggHist, metricsCallers, reviewCallers,
                    badgeTbl, notifyState, lbState, pureState, aux >>

\* s.badgeRepo.HasUserEarnedBadge(user.ID, badge.ID) in the loop
EvalHas(p) ==
    /\ bproc[p].pc = "has"
    /\ bproc' = [ bproc EXCEPT ![p] =
                    IF HasUserEarnedBadge(userBadges, UserAt(@.idx), BadgeAt(@.idx))
                    THEN Continue(@) ELSE [ @ EXCEPT !.pc = "criteria" ] ]
    /\ UNCHANGED << reviewTbl, metricsTbl, aggHist, metricsCallers, reviewCallers,
                    badgeTbl, bruns, notifyState, lbState, pureState, aux >>

\* s.EvaluateBadge(ctx, &badge, user.ID)
EvalCriteria(p) ==
    /\ bproc[p].pc = "criteria"
    /\ \E qualifies \in checkCriteria(metrics, BadgeCriteria(BadgeAt(bproc[p].idx)),
                                      UserAt(bproc[p].idx), now) :
         bproc' = [ bproc EXCEPT ![p] =
                      IF qualifies THEN [ @ EXCEPT !.pc = "award" ] ELSE Continue(@) ]
    /\ UNCHANGED << reviewTbl, metricsTbl, aggHist, metricsCallers, reviewCallers,
                    badgeTbl, bruns, notifyState, lbState, pureState, aux >>

\* BadgeRepository.AwardBadge: the check whether the badge is already awarded
AwardHas(p) ==
    /\ bproc[p].pc = "award"
    /\ bproc' = [ bproc EXCEPT ![p] =
                    IF HasUserEarnedBadge(userBadges, UserAt(@.idx), BadgeAt(@.idx))
                    THEN Continue(@) ELSE [ @ EXCEPT !.pc = "insert" ] ]
    /\ UNCHANGED << reviewTbl, metricsTbl, aggHist, metricsCallers, reviewCallers,
                    badgeTbl, bruns, notifyState, lbState, pureState, aux >>

\* BadgeRepository.AwardBadge: r.db.Create(userBadge); table user_badges has
\* no constraint besides its primary key.
AwardInsert(p) ==
    /\ bproc[p].pc = "insert"
    /\ userBadges' = userBadges \cup
                       { [ id |-> nextUserBadgeId, user |-> UserAt(bproc[p].idx),
                           badge |-> BadgeAt(bproc[p].idx), earnedAt |-> now ] }
    /\ nextUserBadgeId' = nextUserBadgeId + 1
    /\ bproc' = [ bproc EXCEPT ![p] = Continue(@) ]
    /\ UNCHANGED << reviewTbl, metricsTbl, aggHist, metricsCallers, reviewCallers,
                    bruns, notifyState, lbState, pureState, aux >>

\* What the aggregator stores for the users on day 0: two completed reviews
\* for the users with an odd id, one for the others.
BadgeMetricInputs ==
    { ReviewMetrics(0, "frontend", u, 100, 1 + (u % 2), 1 + (u % 2), NULL, NULL, 0, 0,
                    50 * (1 + (u % 2))) : u \in Users }

\* The aggregator stores a user-level row while badges are evaluated.
StoreUserMetrics(m) ==
    /\ \E res \in { MetricsCreateOrUpdate([ rows |-> metrics, next |-> nextMetricId ], m) } :
          /\ metrics' = res.rows
          /\ nextMetricId' = res.next
    /\ UNCHANGED << reviewTbl, aggHist, metricsCallers, reviewCallers, others >>

InitBadges ==
    /\ ReviewsAtRest
    /\ MetricsAtRest
    /\ AggAtRest
    /\ MetricsCallersAtRest
    /\ ReviewCallersAtRest
    /\ OthersAtRest

EvalSteps(p) == EvalHas(p) \/ EvalCriteria(p) \/ AwardHas(p) \/ AwardInsert(p)

\* EvaluateAllBadges runs one after the other; the replicas being alike, the
\* runs are those of the first.
NextBadgeSeq ==
    \/ EvaluateAllBadges(Min(Procs))
    \/ EvalSteps(Min(Procs))
    \/ \E m \in BadgeMetricInputs : StoreUserMetrics(m)

SpecBadgeSeq == InitBadges /\ [][NextBadgeSeq]_vars

PairRows(user, badge) == { r \in userBadges : r.user = user /\ r.badge = badge }

\* C2: with EvaluateAll runs executed one after the other, every (user,
\* badge) pair has 0 or 1 UserBadge rows after any number of runs, and no step
\* of a run changes the rows of a pair that is already awarded.
C2_AtMostOnceSequential ==
    /\ [](\A u \in Users, b \in Badges : Cardinality(PairRows(u, b)) <= 1)
    /\ [][\A u \in Users, b \in Badges :
            PairRows(u, b) # {} => PairRows(u, b)' = PairRows(u, b)]_vars

\* A second run has returned; it met an awarded pair and a pair without award.
C2_Witness ==
    /\ bruns >= 2
    /\ \A p \in Procs : bproc[p].pc = "idle"
    /\ \E u \in Users, b \in Badges : Cardinality(PairRows(u, b)) = 1
    /\ \E u \in Users, b \in Badges : PairRows(u, b) = {}

\* EvaluateAllBadges runs overlap.
NextBadgeConc ==
    \/ \E p \in Procs : EvaluateAllBadges(p) \/ EvalSteps(p)
    \/ \E m \in BadgeMetricInputs : StoreUserMetrics(m)

SpecBadgeConc == InitBadges /\ [][NextBadgeConc]_vars

\* C3: when evaluations of the same (user, badge) pair overlap, the pair
\* ends with exactly one UserBadge row: a second insert is rejected.
C3_OneRowAfterOverlap ==
    \A u \in Users, b \in Badges :
        \A r1, r2 \in PairRows(u, b) : r1.id = r2.id

\* --------------------------------------------------------------- scheduler
\* ReviewRepository.ListPendingMRReviews
ListPendingMRReviews(rows) ==
    { r \in rows : r.status \in { MRStatusPending, MRStatusInReview } }

\* buildPendingMRs: a review whose roulette was never triggered is skipped;
\* the age of a PendingMR is computed from roulette_triggered_at when asked.
buildPendingMRs(reviews) == { r \in reviews : r.triggeredAt # NULL }

\* A filterRecentMRs that wants an age above minAge.
filterRecentMRsStrict(pendingMRs, minAge, t) ==
    { mr \in pendingMRs : t - mr.triggeredAt > minAge }

\* filterRecentMRs, with Age() evaluated at instant t
filterRecentMRs(pendingMRs, minAge, t) ==
    { mr \in pendingMRs : t - mr.triggeredAt >= minAge }

\* Open reviews the reminder job meets: triggered in the morning of day 0,
\* triggered an hour before the end of day 0, never triggered, and a merged one.
PendingShape(k) ==
    CASE k = 1 -> MRReview(100, 1, "frontend", MRStatusPending, 36000, NULL, NULL, NULL, NULL)
      [] k = 2 -> MRReview(100, 2, "backend", MRStatusInReview, 82800, 83000, NULL, NULL, NULL)
      [] k = 3 -> MRReview(100, 3, "backend", MRStatusPending, NULL, NULL, NULL, NULL, NULL)
      [] OTHER -> MRReview(100, 4, "frontend", MRStatusMerged, 36000, 39600, 41400, 43200, NULL)

\* Every replica runs the scheduler with the same configuration, at the end
\* of day 0: the stores hold open reviews and the user-level metrics of day 0.
InitSched ==
    /\ mrReviews = { ReviewWithId(PendingShape(k), k, 0, NULL) : k \in 1..4 }
    /\ nextReviewId = 5
    /\ assignments = {}
    /\ metrics = { WithId(ReviewMetrics(0, "frontend", u, 100, 2, 2, NULL, NULL, 0, 0, 100), u)
                   : u \in Users }
    /\ nextMetricId = MaxUsers + 1
    /\ AggAtRest
    /\ MetricsCallersAtRest
    /\ rproc = [ p \in Procs |-> RIdle ]
    /\ rcalls = 0
    /\ now = DayLen
    /\ toDeliver = {}
    /\ delivered = {}
    /\ OthersAtRest

\* The cron of replica p fires runDailyNotifications.
runDailyNotifications(p) ==
    /\ npc[p].pc = "idle"
    /\ nruns < MaxNotifyRuns
    /\ nruns' = nruns + 1
    /\ npc' = [ npc EXCEPT ![p] = [ pc |-> "query", mrs |-> {} ] ]
    /\ UNCHANGED << reviewTbl, metricsTbl, aggHist, metricsCallers, reviewCallers,
                    badgeTbl, badgeCallers, sent, lbState, pureState, aux >>

\* The job lists the pending reviews, builds and filters the reminder; with
\* nothing to remind of it returns.
NotifyQuery(p) ==
    /\ npc[p].pc = "query"
    /\ LET filtered == filterRecentMRs(buildPendingMRs(ListPendingMRReviews(mrReviews)),
                                       FourHours, now)
       IN npc' = [ npc EXCEPT ![p] = IF filtered = {} THEN NIdle
                                     ELSE [ pc |-> "send",
                                            mrs |-> { r.id : r \in filtered } ] ]
    /\ UNCHANGED << reviewTbl, metricsTbl, aggHist, metricsCallers, reviewCallers,
                    badgeTbl, badgeCallers, nruns, sent, lbState, pureState, aux >>

\* s.mattermostClient.SendDailyReviewReminder(filtered) succeeds or fails.
NotifySend(p) ==
    /\ npc[p].pc = "send"
    /\ \E ok \in BOOLEAN : sent' = IF ok THEN Append(sent, npc[p].mrs) ELSE sent
    /\ npc' = [ npc EXCEPT ![p] = NIdle ]
    /\ UNCHANGED << reviewTbl, metricsTbl, aggHist, metricsCallers, reviewCallers,
                    badgeTbl, badgeCallers, nruns, lbState, pureState, aux >>

\* The cron of replica p fires runBadgeEvaluation, which is EvaluateAllBadges.
runBadgeEvaluation(p) == EvaluateAllBadges(p)

NextSched ==
    \/ \E p \in Procs : runDailyNotifications(p) \/ NotifyQuery(p) \/ NotifySend(p)
    \/ \E p \in Procs : runBadgeEvaluation(p) \/ EvalSteps(p)

SpecSched == InitSched /\ [][NextSched]_vars

\* C4: at every moment at most one replica is inside the daily-reminder job
\* and at most one replica is inside the badge re-evaluation job.
C4_OneInstancePerJob ==
    /\ Cardinality({ p \in Procs : npc[p].pc # "idle" }) <= 1
    /\ Cardinality({ p \in Procs : bproc[p].pc # "idle" }) <= 1

\* ------------------------------------------------------------- leaderboard
\* Table users: the team of a user.
UserTeam(u) == IF u = 1 THEN "frontend" ELSE "backend"

\* leaderboard.calculatePeriodRange with time.Now() = t
calculatePeriodRange(period, t) ==
    [ startDate |-> CASE period = "day" -> t - DayLen
                      [] period = "week" -> t - 7 * DayLen
                      [] period = "month" -> t - 30 * DayLen
                      [] period = "year" -> t - 365 * DayLen
                      [] OTHER -> Year2000,
      endDate |-> t ]

\* MetricsRepository.GetByDateRange with the team filter of getLeaderboard
GetByDateRangeTeam(rows, startDate, endDate, team) ==
    { r \in GetByDateRange(rows, startDate, endDate) : team # "" => r.team = team }

\* leaderboard.aggregateMetricsByUser: per user the sum of completed_reviews
\* and the means total / MetricsCount, kept as quotients; a row whose column
\* is NULL adds nothing to the total and one to the count.  avgCommentCount and
\* engagementScore are in hundredths.
aggregateMetricsByUser(ms) ==
    LET ids == { r.id : r \in ms }
        Row(i) == CHOOSE r \in ms : r.id = i
        Of(u) == { i \in ids : Row(i).user = u }
    IN [ u \in { r.user : r \in { x \in ms : x.user # NULL } } |->
           [ completedReviews |-> SumOver(Of(u), [ i \in ids |-> Row(i).completed ]),
             metricsCount |-> Cardinality(Of(u)),
             totalTTFR |-> SumOver(Of(u), [ i \in ids |-> OrZero(Row(i).avgTTFR) ]),
             totalCommentCount |-> SumOver(Of(u), [ i \in ids |-> OrZero(Row(i).avgCC) ]),
             totalEngagementScore |-> SumOver(Of(u), [ i \in ids |-> OrZero(Row(i).eng) ]) ] ]

\* BadgeRepository.GetUserBadgeCount
GetUserBadgeCount(rows, u) == Cardinality({ r \in rows : r.user = u })

\* The Entry values getLeaderboard builds, Rank still zero.
Entries(rows, ub, team, period, t) ==
    LET range == calculatePeriodRange(period, t)
        userMetrics == aggregateMetricsByUser(
                           GetByDateRangeTeam(rows, range.startDate, range.endDate, team))
    IN { [ user |-> u, team |-> UserTeam(u),
           completedReviews |-> userMetrics[u].completedReviews,
           avgTTFR |-> << userMetrics[u].totalTTFR, userMetrics[u].metricsCount >>,
           avgCommentCount |-> << userMetrics[u].totalCommentCount, userMetrics[u].metricsCount >>,
           engagementScore |-> << userMetrics[u].totalEngagementScore, userMetrics[u].metricsCount >>,
           badgeCount |-> GetUserBadgeCount(ub, u),
           rank |-> 0 ] : u \in DOMAIN userMetrics }

\* x < y for quotients with positive denominators
QLess(x, y) == x[1] * y[2] < y[1] * x[2]

\* A less function that puts the higher value first for every metric.
LessAlwaysDescending(metric, a, b) ==
    CASE metric = "engagement_score" -> QLess(b.engagementScore, a.engagementScore)
      [] metric = "avg_ttfr" -> QLess(b.avgTTFR, a.avgTTFR)
      [] metric = "avg_comment_count" -> QLess(b.avgCommentCount, a.avgCommentCount)
      [] OTHER -> a.completedReviews > b.completedReviews

\* The less function sortLeaderboard hands to sort.Slice: a comes before b.
Less(metric, a, b) ==
    CASE metric = "engagement_score" -> QLess(b.engagementScore, a.engagementScore)
      [] metric = "avg_ttfr" -> QLess(a.avgTTFR, b.avgTTFR)
      [] metric = "avg_comment_count" -> QLess(b.avgCommentCount, a.avgCommentCount)
      [] OTHER -> a.completedReviews > b.completedReviews

\* A sortLeaderboard whose order is the reverse.
sortLeaderboardReversed(entries, metric) ==
    { f \in Perms(entries) : \A i, j \in DOMAIN f : i < j => ~Less(metric, f[i], f[j]) }

\* leaderboard.sortLeaderboard: the entries come out of a map in any order
\* and sort.Slice is not stable, so entries that compare equal end in any order.
sortLeaderboard(entries, metric) ==
    { f \in Perms(entries) : \A i, j \in DOMAIN f : i < j => ~Less(metric, f[j], f[i]) }

\* A truncation that keeps the last entries instead of the first.
TruncateTail(f, limit) ==
    IF limit > 0 /\ Len(f) > limit THEN SubSeq(f, Len(f) - limit + 1, Len(f)) ELSE f

\* if limit > 0 && len(entries) > limit { entries = entries[:limit] }
Truncate(f, limit) == IF limit > 0 /\ Len(f) > limit THEN SubSeq(f, 1, limit) ELSE f

\* A getLeaderboard that numbers the entries before it sorts them.
getLeaderboardRankFirst(rows, ub, team, period, metric, limit, t) ==
    LET es == Entries(rows, ub, team, period, t)
    IN { Truncate(f, limit) :
           f \in UNION { sortLeaderboard({ [ g[i] EXCEPT !.rank = i ] : i \in DOMAIN g }, metric)
                         : g \in Perms(es) } }

\* leaderboard.getLeaderboard: the results it can return.
getLeaderboard(rows, ub, team, period, metric, limit, t) ==
    { Truncate([ i \in DOMAIN f |-> [ f[i] EXCEPT !.rank = i ] ], limit) :
        f \in sortLeaderboard(Entries(rows, ub, team, period, t), metric) }

\* leaderboard.GetUserRank over a leaderboard: the rank, or 0 with an error
GetUserRank(lb, u) ==
    IF \E i \in DOMAIN lb : lb[i].user = u
    THEN lb[CHOOSE i \in DOMAIN lb : lb[i].user = u].rank
    ELSE 0

\* The user-level rows a store can hold for the users on day 0 and day 1:
\* per (user, day) no row or a row with one of three contents.
LBKeys == Users \X { 0, DayLen }
LBContents == { << 1, NULL >>, << 1, 30 >>, << 2, 30 >> }
LBKeyId(k) == 2 * k[1] - (IF k[2] = 0 THEN 1 ELSE 0)
LBRow(k, c) ==
    WithId(ReviewMetrics(k[2], UserTeam(k[1]), k[1], 100, c[1], c[1], c[2], NULL,
                         100 * c[1], 0, 50 * c[1]), LBKeyId(k))

\* The store and the clock a leaderboard query meets, the clock reading t.
InitLBAt(t) ==
    /\ ReviewsAtRest
    /\ \E pick \in [LBKeys -> LBContents \cup { << >> }] :
         /\ metrics = { LBRow(k, pick[k]) : k \in { x \in LBKeys : pick[x] # << >> } }
         /\ nextMetricId = 2 * MaxUsers + 1
    /\ AggAtRest
    /\ MetricsCallersAtRest
    /\ rproc = [ p \in Procs |-> RIdle ]
    /\ rcalls = 0
    /\ now = t
    /\ toDeliver = {}
    /\ delivered = {}
    /\ \E held \in BOOLEAN :
         userBadges = IF held THEN { [ id |-> 1, user |-> 1, badge |-> 1, earnedAt |-> 0 ] }
                      ELSE {}
    /\ nextUserBadgeId = 2
    /\ BadgeCallersAtRest
    /\ NotifyAtRest
    /\ LBAtRest
    /\ PureAtRest
    /\ AuxAtRest

InitLB == InitLBAt(2 * DayLen)

LBTeams == { "", "frontend" }
LBPeriods == { "day", "all_time" }
LBMetrics == { "completed_reviews", "engagement_score", "avg_ttfr", "avg_comment_count",
               "review_quality" }
LBLimits == 0..1

\* GetGlobalLeaderboard (team = "") or GetTeamLeaderboard is called; one
\* query per store is followed.
GetLeaderboard(team, period, metric, limit) ==
    /\ lbArgs = NoArgs
    /\ board' \in getLeaderboard(metrics, userBadges, team, period, metric, limit, now)
    /\ lbArgs' = [ team |-> team, period |-> period, metric |-> metric, limit |-> limit ]
    /\ UNCHANGED << reviewTbl, metricsTbl, aggHist, metricsCallers, reviewCallers,
                    badgeTbl, badgeCallers, notifyState, pureState, aux >>

NextLB ==
    \E team \in LBTeams, period \in LBPeriods, metric \in LBMetrics, limit \in LBLimits :
        GetLeaderboard(team, period, metric, limit)

SpecLB == InitLB /\ [][NextLB]_vars

Unlimited == lbArgs # NoArgs /\ lbArgs.limit = 0

\* C9: a leaderboard returned for limit = 0 with n entries uses each of the
\* ranks 1..n once, and its entry at position i has rank i.
C9_RanksAreThePositions ==
    Unlimited =>
        /\ { board[i].rank : i \in DOMAIN board } = 1..Len(board)
        /\ \A i \in DOMAIN board : board[i].rank = i

\* An unlimited leaderboard with several entries has been returned.
C9_Witness == Unlimited /\ Len(board) >= 2

StrictlyBetter(i) == { j \in DOMAIN board : Less(lbArgs.metric, board[j], board[i]) }
Equal(i) ==
    { j \in DOMAIN board : /\ ~Less(lbArgs.metric, board[j], board[i])
                           /\ ~Less(lbArgs.metric, board[i], board[j]) }

\* C10, as stated: in a leaderboard returned for limit = 0 the rank of every
\* user is 1 plus the number of entries strictly better on the metric, also
\* when users have equal values.
C10_RankIsOnePlusBetter ==
    Unlimited =>
        \A i \in DOMAIN board :
            GetUserRank(board, board[i].user) = 1 + Cardinality(StrictlyBetter(i))

\* C10, amended: in a leaderboard returned for limit = 0 the rank of every
\* user is more than the number of strictly better entries and at most that
\* number plus the number of entries with an equal value (its own included);
\* it is 1 plus the number of strictly better entries when no other entry has
\* an equal value.
C10_RankWithinTies ==
    Unlimited =>
        \A i \in DOMAIN board :
            LET r == GetUserRank(board, board[i].user)
            IN /\ r >= 1 + Cardinality(StrictlyBetter(i))
               /\ r <= Cardinality(StrictlyBetter(i)) + Cardinality(Equal(i))

\* An unlimited leaderboard holding two entries of equal value on the metric
\* has been returned.
C10_Witness ==
    /\ Unlimited
    /\ \E i, j \in DOMAIN board : i # j /\ j \in Equal(i)

Queried == lbArgs # NoArgs

\* C11: the entries of a returned leaderboard are ordered by the requested
\* metric: non-increasing for completed_reviews, engagement_score and
\* avg_comment_count, non-decreasing for avg_ttfr, and as for
\* completed_reviews when the metric name is unknown.
C11_OrderedByMetric ==
    Queried =>
        \A i, j \in DOMAIN board :
            i < j =>
                CASE lbArgs.metric = "engagement_score" ->
                       ~QLess(board[i].engagementScore, board[j].engagementScore)
                  [] lbArgs.metric = "avg_comment_count" ->
                       ~QLess(board[i].avgCommentCount, board[j].avgCommentCount)
                  [] lbArgs.metric = "avg_ttfr" ->
                       ~QLess(board[j].avgTTFR, board[i].avgTTFR)
                  [] OTHER -> board[i].completedReviews >= board[j].completedReviews

\* A leaderboard by avg_ttfr with two entries of different mean has been
\* returned.
C11_Witness ==
    /\ Queried
    /\ lbArgs.metric = "avg_ttfr"
    /\ Len(board) >= 2
    /\ QLess(board[1].avgTTFR, board[2].avgTTFR)

\* ------------------------------------------------- badge criteria, applied
\* The criteria a badge can carry here: a top-N criterion for each rankable
\* metric, and a threshold criterion.
CriteriaInputs ==
    { [ metric |-> m, operator |-> "top", value |-> n, period |-> per ] :
        m \in { "completed_reviews", "engagement_score", "avg_ttfr", "avg_comment_count" },
        n \in 1..MaxUsers, per \in { "day", "" } }
    \cup { [ metric |-> "completed_reviews", operator |-> ">=", value |-> 2, period |-> "" ] }

\* EvaluateBadge is called for a user with a badge of the given criteria; one
\* call per store is followed.
EvaluateBadge(criteria, user) ==
    /\ critArgs = << >>
    /\ critResult' \in checkCriteria(metrics, criteria, user, now)
    /\ critErr' = checkCriteriaErr(metrics, criteria, user, now)
    /\ critArgs' = [ criteria |-> criteria, user |-> user ]
    /\ UNCHANGED << reviewTbl, metricsTbl, aggHist, metricsCallers, reviewCallers,
                    badgeTbl, badgeCallers, notifyState, lbState, calcArgs, calcResult, aux >>

NextCriteria == \E criteria \in CriteriaInputs, user \in Users : EvaluateBadge(criteria, user)

SpecCriteria == InitLB /\ [][NextCriteria]_vars

\* The ranks the user can have in the global leaderboard of the criterion's
\* metric and period (0: not listed).
GlobalRanks(criteria, user) ==
    { GetUserRank(lb, user) :
        lb \in getLeaderboard(metrics, userBadges, "", criteria.period, criteria.metric, 0, now) }

\* C12: a criterion with operator top and value N is true for a user exactly
\* when the user's rank in the global leaderboard of the criterion's metric
\* over the window is at most N (among entries of equal value, any of the
\* ranks the leaderboard can give counts).
C12_TopIsLeaderboardRank ==
    (critArgs # << >> /\ critArgs.criteria.operator = "top") =>
        LET ranks == GlobalRanks(critArgs.criteria, critArgs.user)
        IN IF critResult THEN \E r \in ranks : r >= 1 /\ r <= critArgs.criteria.value
           ELSE \E r \in ranks : r = 0 \/ r > critArgs.criteria.value

\* ------------------------------------------ the worked example of the team row
\* The reviews the last run of AggregateDaily loaded.
LastReviews == GetCompletedReviewsByDateRange(mrReviews, lastAgg, lastAgg + DayLen)

\* The team-level rows of the date of the last run.
TeamRows == { m \in metrics : m.date = lastAgg /\ m.user = NULL /\ m.project = NULL }

\* The last run met exactly one review, a merged one, with exactly two
\* assignments: 5 comments of 500 characters in all, and 3 of 300.
OneReviewTwoAssignments ==
    /\ lastAgg # NULL
    /\ \E r \in LastReviews :
          /\ LastReviews = { r }
          /\ r.status = MRStatusMerged
          /\ \E a, b \in GetAssignmentsByMRReviewID(assignments, r.id) :
                /\ GetAssignmentsByMRReviewID(assignments, r.id) = { a, b }
                /\ a.commentCount = 5 /\ a.commentLength = 500
                /\ b.commentCount = 3 /\ b.commentLength = 300

\* C13 as stated: for one completed review with two assignments of 5 and 3
\* comments, 500 and 300 characters, the aggregation leaves exactly one
\* team-level row with avg_comment_count 4.0, avg_comment_length 400.0 and
\* completed_reviews 1.
C13_MeanPerAssignment ==
    OneReviewTwoAssignments =>
        \E m \in TeamRows :
            /\ TeamRows = { m }
            /\ m.avgCC = 400 /\ m.avgCL = 40000 /\ m.completed = 1

\* C13 amended: in that case the one team-level row carries the sums per
\* review: avg_comment_count 8.0, avg_comment_length 800.0, completed_reviews 1.
C13_SumPerReview ==
    OneReviewTwoAssignments =>
        \E m \in TeamRows :
            /\ TeamRows = { m }
            /\ m.avgCC = 800 /\ m.avgCL = 80000 /\ m.completed = 1

C13_Witness == OneReviewTwoAssignments /\ TeamRows # {}

\* ----------------------------------------------------- the user-level rows
\* The user-level rows of the date of the last run.
UserRows == { m \in metrics : m.date = lastAgg /\ m.user # NULL }

\* The assignments of the reviews the last run loaded.
LastAssignments == { a \in assignments : \E r \in LastReviews : a.review = r.id }

\* C14: after aggregating a date there are as many user-level rows of that
\* date as there are assignments of the reviews loaded, and every assignment
\* has a row carrying its own values.
C14_OneRowPerAssignment ==
    lastAgg # NULL =>
        /\ Cardinality(UserRows) = Cardinality(LastAssignments)
        /\ \A a \in LastAssignments :
              \E m \in UserRows, r \in LastReviews :
                  a.review = r.id /\ m = WithId(UserMetricOf(lastAgg, r, a), m.id)

\* ------------------------------------------- clock skew in the team-level means
\* The reviews of a team among those the last run loaded.
TeamReviews(team) == { r \in LastReviews : r.team = team }

\* The mean, in minutes, of the differences clamped at zero over the reviews
\* that have both timestamps, every such review counted; NULL when there is none.
ClampedMeanMinutes(timed, diff) ==
    IF timed = {} THEN NULL
    ELSE SumOver(timed, [ r \in timed |-> IF diff[r] < 0 THEN 0 ELSE diff[r] ])
            \div (Cardinality(timed) * SecPerMin)

\* C15: in a team-level row, avg_ttfr and avg_time_to_approval are the means
\* over the reviews having both timestamps, a review whose end precedes
\* roulette_triggered_at counting as 0.
C15_NegativeCountsAsZero ==
    lastAgg # NULL =>
        \A m \in TeamRows :
            LET withFirst == { r \in TeamReviews(m.team) :
                                  r.firstReviewAt # NULL /\ r.triggeredAt # NULL }
                withApproved == { r \in TeamReviews(m.team) :
                                     r.approvedAt # NULL /\ r.triggeredAt # NULL }
            IN /\ m.avgTTFR = ClampedMeanMinutes(withFirst,
                                 [ r \in withFirst |-> r.firstReviewAt - r.triggeredAt ])
               /\ m.avgTTA = ClampedMeanMinutes(withApproved,
                                 [ r \in withApproved |-> r.approvedAt - r.triggeredAt ])

\* ------------------------------------------------ the computed review times
\* metrics.CalculateTTFR, in seconds; nil is NULL.
CalculateTTFR(triggeredAt, firstReviewAt) ==
    IF firstReviewAt = NULL THEN NULL
    ELSE IF firstReviewAt - triggeredAt < 0 THEN 0 ELSE firstReviewAt - triggeredAt

\* metrics.CalculateTimeToApproval, in seconds; nil is NULL.
CalculateTimeToApproval(triggeredAt, approvedAt) ==
    IF approvedAt = NULL THEN NULL
    ELSE IF approvedAt - triggeredAt < 0 THEN 0 ELSE approvedAt - triggeredAt

\* Instants around an assignment made at 10:00: before it, at it, half a
\* minute and an hour after it.
CalcTimes == { 35000, 36000, 36030, 39600 }

\* The start is a time.Time (0 when it was never set), the ends are *time.Time.
InitCalc ==
    /\ calcArgs \in [ start : CalcTimes \cup { 0 },
                      first : CalcTimes \cup { NULL },
                      approved : CalcTimes \cup { NULL } ]
    /\ calcResult = << >>
    /\ critArgs = << >> /\ critResult = FALSE /\ critErr = FALSE
    /\ ReviewsAtRest /\ MetricsAtRest /\ AggAtRest /\ MetricsCallersAtRest
    /\ ReviewCallersAtRest
    /\ BadgesAtRest /\ BadgeCallersAtRest /\ NotifyAtRest /\ LBAtRest /\ AuxAtRest

CalcFrame ==
    UNCHANGED << reviewTbl, metricsTbl, aggHist, metricsCallers, reviewCallers, badgeTbl,
                 badgeCallers, notifyState, lbState, critArgs, critResult, critErr, calcArgs,
                 aux >>

RunCalculateTTFR ==
    /\ calcResult = << >>
    /\ calcResult' = [ fn |-> "CalculateTTFR",
                       value |-> CalculateTTFR(calcArgs.start, calcArgs.first) ]
    /\ CalcFrame

RunCalculateTimeToApproval ==
    /\ calcResult = << >>
    /\ calcResult' = [ fn |-> "CalculateTimeToApproval",
                       value |-> CalculateTimeToApproval(calcArgs.start, calcArgs.approved) ]
    /\ CalcFrame

\* The row aggregateUserMetrics stores for one assignment of a merged review.
RunAggregateUserMetrics ==
    /\ calcResult = << >>
    /\ \E m \in { UserMetricOf(0, ReviewWithId(ReviewShape(1, 1), 1, 0, NULL),
                               ReviewerAssignment(1, 1, 1, calcArgs.start, calcArgs.first,
                                                  calcArgs.approved, 1, 100)) } :
          calcResult' = [ fn |-> "aggregateUserMetrics",
                          avgTTFR |-> m.avgTTFR, avgTTA |-> m.avgTTA ]
    /\ CalcFrame

NextCalc == RunCalculateTTFR \/ RunCalculateTimeToApproval \/ RunAggregateUserMetrics

SpecCalc == InitCalc /\ [][NextCalc]_vars

\* C16: a computed TTFR or time to approval is a non-negative number when
\* both its start and its end exist and null when the end is missing, from
\* the two calculators as in the per-assignment values the aggregator stores.
C16_NonNegativeOrNull ==
    calcResult # << >> =>
        CASE calcResult.fn = "CalculateTTFR" ->
                 IF calcArgs.first = NULL THEN calcResult.value = NULL
                 ELSE calcResult.value >= 0
          [] calcResult.fn = "CalculateTimeToApproval" ->
                 IF calcArgs.approved = NULL THEN calcResult.value = NULL
                 ELSE calcResult.value >= 0
          [] OTHER ->
                 /\ calcArgs.first = NULL => calcResult.avgTTFR = NULL
                 /\ calcArgs.approved = NULL => calcResult.avgTTA = NULL
                 /\ calcArgs.start > 0 /\ calcArgs.first # NULL => calcResult.avgTTFR >= 0
                 /\ calcArgs.start > 0 /\ calcArgs.approved # NULL => calcResult.avgTTA >= 0

\* ------------------------------------------------------ the window of a date
\* t lies in the half-open day that starts at startOfDay.
InHalfOpenDay(t, startOfDay) == t # NULL /\ startOfDay <= t /\ t < startOfDay + DayLen

\* The completed reviews of a team merged or closed within the half-open day.
HalfOpenReviews(team, startOfDay) ==
    { r \in mrReviews :
        /\ r.team = team
        /\ r.status \in { MRStatusMerged, MRStatusClosed }
        /\ InHalfOpenDay(r.mergedAt, startOfDay) \/ InHalfOpenDay(r.closedAt, startOfDay) }

\* C17: the reviews aggregated for a date are those merged or closed in
\* [D 00:00, D+1 00:00): each team's row of the date counts exactly these
\* reviews, and a team without any has no row.
C17_HalfOpenWindow ==
    lastAgg # NULL =>
        \A team \in { r.team : r \in mrReviews } :
            IF HalfOpenReviews(team, lastAgg) = {}
            THEN \A m \in TeamRows : m.team # team
            ELSE \E m \in TeamRows :
                    m.team = team /\ m.total = Cardinality(HalfOpenReviews(team, lastAgg))

\* --------------------------------------------- AggregateDaily with failing steps
\* One run of AggregateDaily(date) in which repository calls may return an
\* error: the query for the completed reviews (failLoad), CreateOrUpdate of
\* the team row of the teams in failTeams, GetAssignmentsByMRReviewID in the
\* user-level step of the reviews in failReviews.  A failed step writes
\* nothing, is logged, and the loop goes on; only the failed query makes
\* AggregateDaily return an error.
AggregateDailyWithFailures(date, failLoad) ==
    /\ aggOutcome = "none"
    /\ LET startOfDay == StartOfDay(date)
           reviews == GetCompletedReviewsByDateRange(mrReviews, startOfDay, startOfDay + DayLen)
       IN IF failLoad
          THEN /\ aggOutcome' = "error"
               /\ aggFailed' = [ load |-> TRUE, teams |-> {}, reviews |-> {} ]
               /\ UNCHANGED metricsTbl
          ELSE \E failTeams \in SUBSET { r.team : r \in reviews },
                  failReviews \in SUBSET { r.id : r \in reviews },
                  teamOrder \in TeamOrders(mrReviews, date) :
                  \E res \in { ReviewLoop(
                                 TeamLoop([ rows |-> metrics, next |-> nextMetricId ],
                                          assignments, startOfDay, reviews,
                                          SelectSeq(teamOrder, LAMBDA t : t \notin failTeams)),
                                 assignments, startOfDay, reviews,
                                 SelectSeq(SortedSeq({ r.id : r \in reviews }),
                                           LAMBDA i : i \notin failReviews)) } :
                     /\ metrics' = res.rows
                     /\ nextMetricId' = res.next
                     /\ aggOutcome' = "success"
                     /\ aggFailed' = [ load |-> FALSE, teams |-> failTeams,
                                       reviews |-> failReviews ]
    /\ aggPrev' = metrics
    /\ lastAgg' = StartOfDay(date)
    /\ aggCount' = 1
    /\ UNCHANGED << reviewTbl, metricsCallers, reviewCallers, badgeTbl, badgeCallers,
                    notifyState, lbState, pureState, evalRun, dir >>

NextAggFail == \E date \in AggDates, failLoad \in BOOLEAN : AggregateDailyWithFailures(date, failLoad)

SpecAggFail == InitAgg /\ [][NextAggFail]_vars

\* C18: a run of the aggregation reports success exactly when none of its
\* steps failed; a run in which a team-level or user-level step failed went
\* on with the remaining steps and reports error.
C18_SuccessIffEveryStepCompleted ==
    aggOutcome # "none" => (aggOutcome = "success" <=> aggFailed = NoFailures)

\* ------------------------------------------- the window of a leaderboard query
\* The same stores queried at noon of day 2.
SpecLBNoon == InitLBAt(2 * DayLen + 43200) /\ [][NextLB]_vars

\* The day of a Metrics row, [date, date + 24h), meets the window
\* [startDate, endDate] of the period.
DayIntersects(date, period, t) ==
    /\ date <= calculatePeriodRange(period, t).endDate
    /\ date + DayLen > calculatePeriodRange(period, t).startDate

\* The user-level rows of the days that meet the window, of the team asked for.
WindowRows ==
    { r \in metrics : /\ r.user # NULL
                      /\ DayIntersects(r.date, lbArgs.period, now)
                      /\ lbArgs.team # "" => r.team = lbArgs.team }

\* C19: an unlimited leaderboard has an entry for exactly the users with a
\* row of the requested team whose day meets the rolling window ending now,
\* and the entry's completed_reviews adds up all these rows of the user.
C19_RowsMeetingTheWindow ==
    Unlimited =>
        /\ { board[i].user : i \in DOMAIN board } = { r.user : r \in WindowRows }
        /\ \A i \in DOMAIN board :
              board[i].completedReviews =
                 SumOver({ r \in WindowRows : r.user = board[i].user },
                         [ r \in WindowRows |-> r.completed ])

\* ------------------------------------------------------------- the limit
\* What the query just made can return when asked without a limit.
UnlimitedResults ==
    getLeaderboard(metrics, userBadges, lbArgs.team, lbArgs.period, lbArgs.metric, 0, now)

\* C20: a leaderboard returned for limit k > 0 is the first min(k, n) entries
\* of a result of the same query with limit 0, ranks included.
C20_LimitIsAPrefix ==
    (Queried /\ lbArgs.limit > 0) =>
        \E f \in UnlimitedResults :
            /\ Len(board) = IF lbArgs.limit < Len(f) THEN lbArgs.limit ELSE Len(f)
            /\ \A i \in DOMAIN board : board[i] = f[i]

C20_Witness ==
    /\ Queried /\ lbArgs.limit = 1
    /\ Len(board) = 1
    /\ \E f \in UnlimitedResults : Len(f) = 2

\* ------------------------------------------------ criteria for a user without rows
\* Every metric of the user's map and one the map never has, with every
\* operator and one that is not supported.
AllCriteria ==
    { [ metric |-> m, operator |-> op, value |-> v, period |-> per ] :
        m \in { "avg_ttfr", "avg_comment_count", "avg_comment_length", "engagement_score",
                "completed_reviews", "external_reviews", "review_quality" },
        op \in { "top", "<", "<=", ">", ">=", "==", "!=" },
        v \in 0..1, per \in { "day", "" } }

\* Per user no row, a row of day 0, a row of day 1, or both; the clock at the
\* end of day 1, so that a row of day 0 is outside the window of period day.
InitCriteriaRows ==
    /\ ReviewsAtRest
    /\ \E days \in [Users -> SUBSET { 0, DayLen }] :
         metrics = { LBRow(k, << 1, 30 >>) : k \in { x \in LBKeys : x[2] \in days[x[1]] } }
    /\ nextMetricId = 2 * MaxUsers + 1
    /\ AggAtRest
    /\ MetricsCallersAtRest
    /\ rproc = [ p \in Procs |-> RIdle ]
    /\ rcalls = 0
    /\ now = 2 * DayLen
    /\ toDeliver = {}
    /\ delivered = {}
    /\ OthersAtRest

NextCriteriaAll == \E criteria \in AllCriteria, user \in Users : EvaluateBadge(criteria, user)

SpecCriteriaAll == InitCriteriaRows /\ [][NextCriteriaAll]_vars

\* The rows of the user of the call in the window of the call's criterion.
RowsInWindow ==
    GetMetricsByUser(metrics, critArgs.user,
                     badgesCalculatePeriodRange(critArgs.criteria.period, now).startDate,
                     badgesCalculatePeriodRange(critArgs.criteria.period, now).endDate)

\* C21: a criterion evaluated for a user without a Metrics row in its window
\* gives false and no error, whatever its metric and operator.
C21_NoRowsIsFalse ==
    (critArgs # << >> /\ RowsInWindow = {}) => (~critResult /\ ~critErr)

C21_Witness ==
    /\ critArgs # << >>
    /\ RowsInWindow = {}
    /\ critArgs.criteria.operator = "top"
    /\ \E r \in metrics : r.user = critArgs.user
    /\ \E r \in metrics : r.user # critArgs.user /\ r.date = DayLen

\* ------------------------------------------ EvaluateAllBadges with failing calls
\* The pairs in the order of the two loops.
PairIdx == 1..NumPairs

\* The call of a pair's iteration that returns an error, if any:
\* HasUserEarnedBadge, EvaluateBadge or AwardBadge.
PairFaults == { "none", "has", "criteria", "award" }

\* A loop that returns at the first failed call instead of going on.
RECURSIVE EvalLoopStopping(_, _, _, _)
EvalLoopStopping(tbl, idx, fails, qual) ==
    IF idx > NumPairs THEN tbl
    ELSE IF fails[idx] = "has" THEN tbl
    ELSE IF HasUserEarnedBadge(tbl.rows, UserAt(idx), BadgeAt(idx))
    THEN EvalLoopStopping(tbl, idx + 1, fails, qual)
    ELSE IF fails[idx] = "criteria" THEN tbl
    ELSE IF ~qual[idx] THEN EvalLoopStopping(tbl, idx + 1, fails, qual)
    ELSE IF fails[idx] = "award" THEN tbl
    ELSE EvalLoopStopping(
            [ rows |-> tbl.rows \cup { [ id |-> tbl.next, user |-> UserAt(idx),
                                         badge |-> BadgeAt(idx), earnedAt |-> now ] },
              next |-> tbl.next + 1 ],
            idx + 1, fails, qual)

\* The two loops of EvaluateAllBadges from pair idx on, over user_badges and
\* its SERIAL: every failed call is logged and followed by `continue`.
\* qual[idx] is what EvaluateBadge returns for the pair.
RECURSIVE EvalLoop(_, _, _, _)
EvalLoop(tbl, idx, fails, qual) ==
    IF idx > NumPairs THEN tbl
    ELSE IF fails[idx] = "has" THEN EvalLoop(tbl, idx + 1, fails, qual)
    ELSE IF HasUserEarnedBadge(tbl.rows, UserAt(idx), BadgeAt(idx))
    THEN EvalLoop(tbl, idx + 1, fails, qual)
    ELSE IF fails[idx] = "criteria" THEN EvalLoop(tbl, idx + 1, fails, qual)
    ELSE IF ~qual[idx] THEN EvalLoop(tbl, idx + 1, fails, qual)
    ELSE IF fails[idx] = "award" THEN EvalLoop(tbl, idx + 1, fails, qual)
    ELSE EvalLoop([ rows |-> tbl.rows \cup { [ id |-> tbl.next, user |-> UserAt(idx),
                                               badge |-> BadgeAt(idx), earnedAt |-> now ] },
                    next |-> tbl.next + 1 ],
                  idx + 1, fails, qual)

\* One run of EvaluateAllBadges, from start to return.  load names the list
\* that could not be loaded, if any; then the run returns an error at once.
EvaluateAllBadgesWithFailures(load) ==
    /\ evalOutcome = "none"
    /\ IF load # "none"
       THEN /\ evalOutcome' = "error"
            /\ evalFailed' = [ load |-> load, pairs |-> [ i \in PairIdx |-> "none" ] ]
            /\ UNCHANGED badgeTbl
       ELSE /\ \E qual \in [PairIdx -> BOOLEAN] :
                 /\ \A i \in PairIdx :
                       qual[i] \in checkCriteria(metrics, BadgeCriteria(BadgeAt(i)), UserAt(i), now)
                 /\ \E fails \in [PairIdx -> PairFaults] :
                       \E res \in { EvalLoop([ rows |-> userBadges, next |-> nextUserBadgeId ],
                                              1, fails, qual) } :
                          /\ userBadges' = res.rows
                          /\ nextUserBadgeId' = res.next
                          /\ evalFailed' = [ load |-> "none", pairs |-> fails ]
            /\ evalOutcome' = "success"
    /\ UNCHANGED << reviewTbl, metricsTbl, aggHist, metricsCallers, reviewCallers,
                    badgeCallers, notifyState, lbState, pureState, aggRun, dir >>

\* The user-level rows of day 0 are stored, and user 1 may hold badge 1.
InitBadgeFail ==
    /\ ReviewsAtRest
    /\ metrics = { WithId(ReviewMetrics(0, "frontend", u, 100, 1 + (u % 2), 1 + (u % 2),
                                        NULL, NULL, 0, 0, 50 * (1 + (u % 2))), u)
                   : u \in Users }
    /\ nextMetricId = MaxUsers + 1
    /\ AggAtRest
    /\ MetricsCallersAtRest
    /\ ReviewCallersAtRest
    /\ \E held \in BOOLEAN :
         userBadges = IF held THEN { [ id |-> 1, user |-> 1, badge |-> 1, earnedAt |-> 0 ] }
                      ELSE {}
    /\ nextUserBadgeId = 2
    /\ BadgeCallersAtRest
    /\ NotifyAtRest
    /\ LBAtRest
    /\ PureAtRest
    /\ AuxAtRest

NextBadgeFail ==
    \E load \in { "none", "badges", "users" } : EvaluateAllBadgesWithFailures(load)

SpecBadgeFail == InitBadgeFail /\ [][NextBadgeFail]_vars

\* The pair certainly qualifies.
Qualifies(idx) == checkCriteria(metrics, BadgeCriteria(BadgeAt(idx)), UserAt(idx), now) = { TRUE }

\* C22: a run whose lists were loaded reports success whatever calls failed
\* for single pairs, and every pair none of whose calls failed that held no
\* badge and qualifies holds it after the run; a run that could not load the
\* badges or the users reports an error.
C22_PairFailuresDoNotStopTheRun ==
    [][evalOutcome' # evalOutcome =>
          IF evalFailed'.load # "none" THEN evalOutcome' = "error"
          ELSE /\ evalOutcome' = "success"
               /\ \A i \in PairIdx :
                     (/\ evalFailed'.pairs[i] = "none"
                      /\ PairRows(UserAt(i), BadgeAt(i)) = {}
                      /\ Qualifies(i))
                     => \E r \in userBadges' : r.user = UserAt(i) /\ r.badge = BadgeAt(i)]_vars

\* A run in which the call of a pair failed has awarded a later pair.
C22_Witness ==
    /\ evalOutcome = "success"
    /\ \E i, j \in PairIdx :
          /\ i < j
          /\ evalFailed.pairs[i] # "none"
          /\ \E r \in userBadges : r.id >= 2 /\ r.user = UserAt(j) /\ r.badge = BadgeAt(j)

\* ------------------------------------------------------ the daily reminder
\* The instants the reminder job runs at: a second before the review
\* triggered at 10:00 is four hours old, the second it is, and the end of day 0.
NotifyTimes == { 36000 + FourHours - 1, 36000 + FourHours, DayLen }

\* Any of the four reviews may be in the store.
InitNotify ==
    /\ \E ks \in SUBSET (1..4) :
         mrReviews = { ReviewWithId(PendingShape(k), k, 0, NULL) : k \in ks }
    /\ nextReviewId = 5
    /\ assignments = {}
    /\ MetricsAtRest
    /\ AggAtRest
    /\ MetricsCallersAtRest
    /\ rproc = [ p \in Procs |-> RIdle ]
    /\ rcalls = 0
    /\ now \in NotifyTimes
    /\ toDeliver = {}
    /\ delivered = {}
    /\ OthersAtRest

NextNotify == \E p \in Procs : runDailyNotifications(p) \/ NotifyQuery(p) \/ NotifySend(p)

SpecNotify == InitNotify /\ [][NextNotify]_vars

\* The open reviews whose roulette was triggered at least four hours ago.
DueReviews ==
    { r.id : r \in { x \in mrReviews :
                        /\ x.status \in { MRStatusPending, MRStatusInReview }
                        /\ x.triggeredAt # NULL
                        /\ x.triggeredAt + FourHours <= now } }

\* C23: a run of the reminder job goes on to send a reminder exactly when
\* some open review was triggered at least four hours ago, and a reminder
\* that is being sent or was sent lists exactly these reviews.
C23_ReminderListsTheDue ==
    /\ [](/\ \A i \in DOMAIN sent : sent[i] = DueReviews /\ DueReviews # {}
          /\ \A p \in Procs : npc[p].pc = "send" => npc[p].mrs = DueReviews /\ DueReviews # {})
    /\ [][\A p \in Procs :
            (npc[p].pc = "query" /\ npc'[p].pc # "query")
            => (npc'[p].pc = "send" <=> DueReviews # {})]_vars

\* A reminder was sent while an open review was too recent to be listed, at
\* the second the listed one became four hours old.
C23_Witness ==
    /\ Len(sent) >= 1
    /\ now = 36000 + FourHours
    /\ \E r \in mrReviews : r.status = MRStatusInReview /\ r.id \notin sent[1]

\* ------------------------------------------------------------ out of office
\* A value of models.OOOStatus.
OOOStatus(id, user, startDate, endDate) ==
    [ id |-> id, user |-> user, startDate |-> startDate, endDate |-> endDate ]

\* OOORepository.IsUserOOO at instant t:
\* user_id = ? AND start_date <= ? AND end_date >= ?, count > 0
IsUserOOO(rows, user, t) ==
    Cardinality({ o \in rows : o.user = user /\ o.startDate <= t /\ o.endDate >= t }) > 0

\* OOOStatus.IsActive at instant t: now.After(o.StartDate) && now.Before(o.EndDate)
IsActive(o, t) == t > o.startDate /\ t < o.endDate

\* The windows a user can have: 10:00 to 11:00, and 11:00 to 12:00.
OOOWindows ==
    { OOOStatus(2 * u - 1, u, 36000, 39600) : u \in Users }
    \cup { OOOStatus(2 * u, u, 39600, 43200) : u \in Users }

\* Before, at the start of, within, at the end of and after a window.
OOOTimes == { 35999, 36000, 37000, 39600, 43200, 43201 }

InitOOO ==
    /\ oooTbl \in SUBSET OOOWindows
    /\ oooResult = << >>
    /\ ReviewsAtRest /\ MetricsAtRest /\ AggAtRest /\ MetricsCallersAtRest
    /\ rproc = [ p \in Procs |-> RIdle ]
    /\ rcalls = 0
    /\ now \in OOOTimes
    /\ toDeliver = {}
    /\ delivered = {}
    /\ BadgesAtRest /\ BadgeCallersAtRest /\ NotifyAtRest /\ LBAtRest /\ PureAtRest
    /\ AggRunAtRest /\ EvalRunAtRest /\ RouletteAtRest /\ UsersAtRest

OOOFrame ==
    UNCHANGED << reviewTbl, metricsTbl, aggHist, metricsCallers, reviewCallers, badgeTbl,
                 badgeCallers, notifyState, lbState, pureState, aggRun, evalRun, oooTbl,
                 rouletteState, userState >>

\* OOORepository.IsUserOOO(userID) is called.
CallIsUserOOO(user) ==
    /\ oooResult = << >>
    /\ oooResult' = [ fn |-> "IsUserOOO", user |-> user, window |-> NULL,
                      value |-> IsUserOOO(oooTbl, user, now) ]
    /\ OOOFrame

\* IsActive is called on a row of ooo_status.
CallIsActive(o) ==
    /\ oooResult = << >>
    /\ o \in oooTbl
    /\ oooResult' = [ fn |-> "IsActive", user |-> o.user, window |-> o.id,
                      value |-> IsActive(o, now) ]
    /\ OOOFrame

NextOOO == (\E user \in Users : CallIsUserOOO(user)) \/ (\E o \in OOOWindows : CallIsActive(o))

SpecOOO == InitOOO /\ [][NextOOO]_vars

\* C24: IsUserOOO reports a user out of office exactly when one of the
\* user's windows has start <= now <= end, and IsActive reports a window
\* active exactly when its start <= now <= end, both ends included.
C24_InclusiveWindow ==
    oooResult # << >> =>
        IF oooResult.fn = "IsUserOOO"
        THEN oooResult.value <=>
                \E o \in oooTbl : /\ o.user = oooResult.user
                                  /\ o.startDate <= now /\ now <= o.endDate
        ELSE oooResult.value <=>
                \E o \in oooTbl : /\ o.id = oooResult.window
                                  /\ o.startDate <= now /\ now <= o.endDate

\* ------------------------------------------------------ the roulette selector
\* The selector of section 4.E of the specification, over the roster Users
\* with UserTeam.  The scores depend on loads and assignment history that
\* are free here: any candidate of a pool can be the one chosen.
Roles == { "codeowner", "team_member", "external" }

Available(u) == ~IsUserOOO(oooTbl, u, now)

\* The users named in CODEOWNERS for a changed path, without the author and
\* the users out of office.
CodeOwnerCandidates(owners, author) == { u \in owners : u # author /\ Available(u) }

\* Same-team users, minus author, minus the code-owner chosen, minus OOO.
TeamMemberCandidates(team, author, codeowner) ==
    { u \in Users : UserTeam(u) = team /\ u # author /\ u # codeowner /\ Available(u) }

\* All users of other teams, minus OOO.
ExternalCandidates(team) == { u \in Users : UserTeam(u) # team /\ Available(u) }

\* The slot of a role: one of the candidates, or dropped.
Slot(role, candidates) == IF candidates = {} THEN { {} }
                          ELSE { { [ role |-> role, user |-> u ] } : u \in candidates }

\* The results a roulette can return for an MR of the team by the author.
SelectReviewers(team, author, owners) ==
    UNION { { co \cup tm \cup ex :
                tm \in Slot("team_member",
                            TeamMemberCandidates(team, author,
                               IF co = {} THEN NULL ELSE (CHOOSE a \in co : TRUE).user)),
                ex \in Slot("external", ExternalCandidates(team)) }
            : co \in Slot("codeowner", CodeOwnerCandidates(owners, author)) }

\* Users may be out of office from 10:00 to 11:00; it is 10:16:40.
InitRoulette ==
    /\ oooTbl \in SUBSET OOOWindows
    /\ oooResult = << >>
    /\ ReviewsAtRest /\ MetricsAtRest /\ AggAtRest /\ MetricsCallersAtRest
    /\ rproc = [ p \in Procs |-> RIdle ]
    /\ rcalls = 0
    /\ now = 37000
    /\ toDeliver = {}
    /\ delivered = {}
    /\ BadgesAtRest /\ BadgeCallersAtRest /\ NotifyAtRest /\ LBAtRest /\ PureAtRest
    /\ AggRunAtRest /\ EvalRunAtRest /\ RouletteAtRest /\ UsersAtRest

\* /roulette on an MR of the team, written by the author (NULL: unknown),
\* whose changed paths have the given code owners.
Roulette(team, author, owners) ==
    /\ rouletteArgs = << >>
    /\ rouletteArgs' = [ team |-> team, author |-> author, owners |-> owners ]
    /\ rouletteResult' \in SelectReviewers(team, author, owners)
    /\ UNCHANGED << reviewTbl, metricsTbl, aggHist, metricsCallers, reviewCallers, badgeTbl,
                    badgeCallers, notifyState, lbState, pureState, aggRun, evalRun, oooState,
                    userState >>

NextRoulette ==
    \E team \in { "frontend", "backend" }, author \in Users \cup { NULL }, owners \in SUBSET Users :
        Roulette(team, author, owners)

SpecRoulette == InitRoulette /\ [][NextRoulette]_vars

\* C25: no assignment of a roulette result, whatever its role, names the
\* author of the MR.
C25_AuthorNeverAssigned ==
    rouletteArgs # << >> => \A a \in rouletteResult : a.user # rouletteArgs.author

\* ------------------------------------------------ UserRepository.CreateOrUpdate
MaxUserCalls == 3

\* models.User: id, gitlab_id (unique), username (unique), team (standing
\* for email, role and team, which are copied together).
User(id, gitlabId, username, team) ==
    [ id |-> id, gitlabId |-> gitlabId, username |-> username, team |-> team ]

\* The user values given to CreateOrUpdate: the caller leaves ID at zero.
UserValues ==
    { User(0, g, n, t) : g \in 0..2, n \in { "alice", "bob" }, t \in { "frontend", "backend" } }

\* db.Where(...).First(&existing): the matching row of lowest id.
FirstUser(rows) == CHOOSE r \in rows : \A o \in rows : r.id <= o.id

\* The unique indexes on gitlab_id and username.
UsersUnique(tbl) ==
    \A a, b \in tbl : (a.gitlabId = b.gitlabId \/ a.username = b.username) => a = b

\* UserRepository.Update: db.Save writes every column of the row of that id;
\* a write that breaks a unique index is rejected and the table is unchanged.
UserUpdate(tbl, row) ==
    LET written == { r \in tbl : r.id # row.id } \cup { row }
    IN  IF UsersUnique(written) THEN [ tbl |-> written, err |-> FALSE ]
        ELSE [ tbl |-> tbl, err |-> TRUE ]

\* UserRepository.CreateOrUpdate(user) on the table tbl, the SERIAL at nextId.
UserCreateOrUpdate(tbl, nextId, user) ==
    LET byGitLabID == { r \in tbl : r.gitlabId = user.gitlabId }
        byUsername == { r \in tbl : r.username = user.username }
    IN  IF byGitLabID # {}
        THEN UserUpdate(tbl, [ FirstUser(byGitLabID) EXCEPT !.username = user.username,
                                                            !.team = user.team ])
        ELSE IF byUsername # {}
        THEN UserUpdate(tbl, [ FirstUser(byUsername) EXCEPT !.gitlabId = user.gitlabId,
                                                            !.team = user.team ])
        ELSE [ tbl |-> tbl \cup { [ user EXCEPT !.id = nextId ] }, err |-> FALSE ]

InitUsers ==
    /\ OOOAtRest /\ RouletteAtRest /\ UsersAtRest
    /\ ReviewsAtRest /\ MetricsAtRest /\ AggAtRest /\ MetricsCallersAtRest
    /\ ReviewCallersAtRest
    /\ BadgesAtRest /\ BadgeCallersAtRest /\ NotifyAtRest /\ LBAtRest /\ PureAtRest
    /\ AggRunAtRest /\ EvalRunAtRest

\* One call of CreateOrUpdate, its value and its outcome recorded.
CreateOrUpdateUser(user) ==
    /\ Len(userCalls) < MaxUserCalls
    /\ LET res == UserCreateOrUpdate(users, nextUserId, user)
       IN  /\ users' = res.tbl
           /\ nextUserId' = IF Cardinality(res.tbl) > Cardinality(users)
                            THEN nextUserId + 1 ELSE nextUserId
           /\ userCalls' = Append(userCalls, [ user |-> user, err |-> res.err ])
    /\ UNCHANGED << reviewTbl, metricsTbl, aggHist, metricsCallers, reviewCallers, badgeTbl,
                    badgeCallers, notifyState, lbState, pureState, aggRun, evalRun, oooState,
                    rouletteState >>

NextUsers == \E user \in UserValues : CreateOrUpdateUser(user)

SpecUsers == InitUsers /\ [][NextUsers]_vars

\* The rows of the table that share the GitLab id or the username of user.
RowsOf(tbl, user) ==
    { r \in tbl : r.gitlabId = user.gitlabId \/ r.username = user.username }

\* C26: after CreateOrUpdate(user) the table holds exactly one row with the
\* GitLab id or the username of user, and that row carries the user's values;
\* a further application with the same value leaves the table as it is.
C26_IdempotentUpsert ==
    [][ userCalls' # userCalls =>
          LET user == userCalls'[Len(userCalls')].user
          IN  /\ \E r \in users' :
                    /\ RowsOf(users', user) = { r }
                    /\ [ r EXCEPT !.id = 0 ] = user
              /\ (userCalls # << >> /\ userCalls[Len(userCalls)].user = user)
                    => users' = users ]_vars

\* ------------------------------------- the store changes between two runs
\* ReviewRepository.DeleteAssignmentsByMRReviewID
DeleteAssignmentsByMRReviewID(asg, id) == { a \in asg : a.review # id }

\* What a caller of UpdateMRReview saves over the row r: the MR moved to the
\* backend team, or the MR open again.
ReviewEdits(r) ==
    { [ r EXCEPT !.team = "backend" ],
      [ r EXCEPT !.status = MRStatusPending, !.mergedAt = NULL, !.closedAt = NULL ] }

\* The assignments of a review are deleted.
DeleteAssignments(id) ==
    /\ \E a \in assignments : a.review = id
    /\ assignments' = DeleteAssignmentsByMRReviewID(assignments, id)
    /\ UNCHANGED << others, mrReviews, nextReviewId, metricsTbl, aggHist, metricsCallers,
                    reviewCallers >>

\* A review row is saved with new values.
UpdateReview(id) ==
    \E r \in mrReviews :
        /\ r.id = id
        /\ r.status \in { MRStatusMerged, MRStatusClosed }
        /\ \E v \in ReviewEdits(r) \ { r } :
             LET tbl == UpdateMRReview([ rows |-> mrReviews, next |-> nextReviewId ],
                                       v, id, r.createdAt, r.botCommentId)
             IN  /\ mrReviews' = tbl.rows
                 /\ nextReviewId' = tbl.next
        /\ UNCHANGED << others, assignments, metricsTbl, aggHist, metricsCallers,
                        reviewCallers >>

NextAggChange ==
    \/ \E date \in AggDates : AggregateDaily(date)
    \/ \E id \in 1..MaxReviews : DeleteAssignments(id)
    \/ \E id \in 1..MaxReviews : UpdateReview(id)

\* Reviews merged or closed on day 0, with or without assignments.
InitAggChange ==
    /\ \E n \in 1..MaxReviews :
         \E shape \in [1..n -> { 1, 2 }], pick \in [1..n -> AssignmentChoices] :
            /\ mrReviews = { ReviewWithId(ReviewShape(i, shape[i]), i, 0, NULL) : i \in 1..n }
            /\ assignments = UNION { { AssignmentShape(3 * (i - 1) + k, i, k) : k \in pick[i] }
                                     : i \in 1..n }
            /\ nextReviewId = n + 1
    /\ MetricsAtRest
    /\ AggAtRest
    /\ MetricsCallersAtRest
    /\ ReviewCallersAtRest
    /\ OthersAtRest

SpecAggChange == InitAggChange /\ [][NextAggChange]_vars

\* A metrics row without its primary key.
Unkeyed(m) == ReviewMetrics(m.date, m.team, m.user, m.project, m.total, m.completed,
                            m.avgTTFR, m.avgTTA, m.avgCC, m.avgCL, m.eng)

\* The rows AggregateDaily(date) derives from the store as it is now.
DerivedRows(revs, asg, date) ==
    LET teamOrder == CHOOSE o \in TeamOrders(revs, date) : TRUE
    IN  { Unkeyed(m) : m \in AggregateDailyResult([ rows |-> {}, next |-> 1 ],
                                                 revs, asg, date, teamOrder).rows }

\* C27: when a run of AggregateDaily(D) returns, the Metrics rows dated D are
\* exactly the rows derived from the reviews now completed on D; no row of an
\* earlier run for a team, user or project without such a review remains.
C27_NoStaleRows ==
    [][ << lastAgg, aggCount >>' # << lastAgg, aggCount >> =>
          { Unkeyed(m) : m \in { x \in metrics' : x.date = lastAgg' } }
             = DerivedRows(mrReviews', assignments', lastAgg') ]_vars

\* ------------------------------------------- threshold badges on avg_ttfr
\* A fast-reviewer criterion: avg_ttfr below, or at most, so many minutes.
TTFRCriteria ==
    { [ metric |-> "avg_ttfr", operator |-> op, value |-> v, period |-> per ] :
        op \in { "<", "<=" }, v \in { 30, 120 }, per \in { "day", "" } }

\* Rows of one completed review: no TTFR recorded, 30 minutes, 200 minutes.
TTFRContents == { << 1, NULL >>, << 1, 30 >>, << 1, 200 >> }

\* Per user and day no row or a row of one of the contents; the clock at noon
\* of day 1, so that a row of day 0 is outside the window of period day.
InitTTFR ==
    /\ ReviewsAtRest
    /\ \E pick \in [LBKeys -> TTFRContents \cup { << >> }] :
         metrics = { LBRow(k, pick[k]) : k \in { x \in LBKeys : pick[x] # << >> } }
    /\ nextMetricId = 2 * MaxUsers + 1
    /\ AggAtRest
    /\ MetricsCallersAtRest
    /\ rproc = [ p \in Procs |-> RIdle ]
    /\ rcalls = 0
    /\ now = DayLen + 43200
    /\ toDeliver = {}
    /\ delivered = {}
    /\ OthersAtRest

NextTTFR == \E criteria \in TTFRCriteria, user \in Users : EvaluateBadge(criteria, user)

SpecTTFR == InitTTFR /\ [][NextTTFR]_vars

\* The rows of the call's window that recorded a TTFR.
RecordedTTFR == { r \in RowsInWindow : r.avgTTFR # NULL }

\* The mean avg_ttfr over the rows that recorded one, as a quotient.
RecordedMeanTTFR ==
    LET ids == { r.id : r \in RecordedTTFR }
    IN  [ num |-> SumOver(ids, [ i \in ids |-> (CHOOSE r \in RecordedTTFR : r.id = i).avgTTFR ]),
          den |-> Cardinality(ids) ]

\* C28: a threshold criterion on avg_ttfr with < or <= holds for a user
\* exactly when the user has a row with a recorded TTFR in the window and the
\* mean over those rows meets the threshold; rows without a TTFR count for
\* nothing.
C28_NullTTFRNeverQualifies ==
    critArgs # << >> =>
        (critResult <=> /\ RecordedTTFR # {}
                        /\ evaluateMetricCriteria(critArgs.criteria.operator,
                                                  critArgs.criteria.value, RecordedMeanTTFR))

\* ------------------------------------- leaderboards ordered by avg_ttfr
\* The rows of user u the query of the returned leaderboard read.
QueriedRows(u) ==
    { r \in GetByDateRangeTeam(metrics, calculatePeriodRange(lbArgs.period, now).startDate,
                               calculatePeriodRange(lbArgs.period, now).endDate, lbArgs.team) :
        r.user = u }

\* The rows among them that recorded a TTFR.
QueriedTTFR(u) == { r \in QueriedRows(u) : r.avgTTFR # NULL }

\* The mean avg_ttfr of user u over the rows that recorded one, as a quotient.
QueriedMeanTTFR(u) ==
    LET ids == { r.id : r \in QueriedTTFR(u) }
    IN  << SumOver(ids, [ i \in ids |-> (CHOOSE r \in QueriedTTFR(u) : r.id = i).avgTTFR ]),
           Cardinality(ids) >>

\* C29: in a leaderboard ordered by avg_ttfr no user without a recorded TTFR
\* stands before a user with one, and the avg_ttfr of a user with a recorded
\* TTFR is the mean over the rows that recorded it.
C29_NoTTFRNeverAhead ==
    (Queried /\ lbArgs.metric = "avg_ttfr") =>
        /\ \A i, j \in DOMAIN board :
              (i < j /\ QueriedTTFR(board[j].user) # {}) => QueriedTTFR(board[i].user) # {}
        /\ \A i \in DOMAIN board :
              QueriedTTFR(board[i].user) # {} =>
                 /\ ~QLess(board[i].avgTTFR, QueriedMeanTTFR(board[i].user))
                 /\ ~QLess(QueriedMeanTTFR(board[i].user), board[i].avgTTFR)

\* ------------------------- top N on engagement_score and avg_comment_count
\* The rankings evaluateTopRanking can build for the criterion of the call.
BadgeRankings ==
    sortUserRankings(badgesAggregateMetricsByUser(
        GetByDateRange(metrics,
                       badgesCalculatePeriodRange(critArgs.criteria.period, now).startDate,
                       badgesCalculatePeriodRange(critArgs.criteria.period, now).endDate),
        critArgs.criteria.metric))

\* The global leaderboards of limit 0 for the criterion of the call.
GlobalBoards ==
    getLeaderboard(metrics, userBadges, "", critArgs.criteria.period,
                   critArgs.criteria.metric, 0, now)

\* No two users tie, in the badge ranking or in the leaderboard: each has one
\* possible order.
NoTwoUsersTie == Cardinality(BadgeRankings) = 1 /\ Cardinality(GlobalBoards) = 1

\* C30: for engagement_score and avg_comment_count, when no two users tie, a
\* top N criterion is true for a user exactly when the user's rank in the
\* global leaderboard of limit 0 for that metric and period is at most N.
C30_TopMatchesLeaderboardMean ==
    ( /\ critArgs # << >>
      /\ critArgs.criteria.operator = "top"
      /\ critArgs.criteria.metric \in { "engagement_score", "avg_comment_count" }
      /\ NoTwoUsersTie ) =>
        (critResult <=> \A lb \in GlobalBoards :
                           GetUserRank(lb, critArgs.user) \in 1..critArgs.criteria.value)

====
